---- MODULE Spec2Model ----
(***************************************************************************)
(* Model of the robotic sorting core: the arm controller state machine     *)
(* (arm_controller.py), the object/zone registry (object_manager.py) and   *)
(* the shared data types (models.py).                                      *)
(*                                                                         *)
(* Coordinates are fixed-point: one distance unit of the source is Unit    *)
(* (100) model units, so the source's buffer 0.5 is 50 and the fractions   *)
(* 0.2, 0.33, 0.5, 0.67, 0.8 are 20, 33, 50, 67, 80 hundredths.  A         *)
(* position is a pair <<x, y>>; an absent position is <<>>; an absent      *)
(* object id is None.                                                      *)
(*                                                                         *)
(* pick_object and place_object are stepped through their retry loop: pc   *)
(* is the position inside the running call and "ready" between calls.      *)
(* The failure callback is an arbitrary predicate: every evaluation is a   *)
(* nondeterministic boolean.                                               *)
(*                                                                         *)
(* "\E v \in {e} : ..." and "CHOOSE r \in {F(v) : v \in {e}} : TRUE" bind v   *)
(* to the value of e: they are LET with e evaluated once.                  *)
(***************************************************************************)
EXTENDS Integers, Sequences, FiniteSets, TLC

VARIABLES
    arm,          \* RoboticArmController fields
    objects,      \* ObjectManager.objects: id -> [state, position]
    next_id,      \* ObjectManager._next_id
    zone_count,   \* TargetZone.current_count of every zone
    pc,           \* position inside the running pick/place call
    call,         \* arguments of the running pick/place call, and what preceded it
    result,       \* the last returned OperationResult / MovementResult
    route,        \* the last move_to: its arguments and its waypoints
    cb,           \* values the failure callback returned during the last call
    metrics       \* MetricsCollector fields

vars == <<arm, objects, next_id, zone_count, pc, call, result, route, cb, metrics>>

----------------------------------------------------------------------------
(* Bounds of the model *)

MaxObjects == 2
MaxRetry == 1
\* the operations a MetricsCollector records between resets, and the reports
\* it saves
MaxRecords == 2
MaxReports == 2

----------------------------------------------------------------------------
(* Data types, models.py *)

Unit == 100

None == "None"
NoPos == <<>>

Pos(x, y) == <<x * Unit, y * Unit>>

\* BoundingBox.contains: inclusive boundaries
Contains(box, point) ==
    /\ box.min[1] <= point[1] /\ point[1] <= box.max[1]
    /\ box.min[2] <= point[2] /\ point[2] <= box.max[2]

\* the centre ((min + max) / 2) of a bounding box
Center(box) ==
    <<(box.min[1] + box.max[1]) \div 2, (box.min[2] + box.max[2]) \div 2>>

\* SourceArea given to the ObjectManager
source_area == [bounds |-> [min |-> Pos(0, 0), max |-> Pos(10, 10)], capacity |-> 10]

\* TargetZone list given to the ObjectManager, in list order.  zoneB has
\* its corners swapped (BoundingBox does not validate them), so its centre
\* is outside its bounds.
target_zones ==
    << [id |-> "zoneA", bounds |-> [min |-> Pos(20, 20), max |-> Pos(30, 30)], capacity |-> 2],
       [id |-> "zoneB", bounds |-> [min |-> Pos(10, 30), max |-> Pos(0, 20)], capacity |-> 1] >>

ZoneIds == {target_zones[i].id : i \in 1..Len(target_zones)}

Zone(zid) == CHOOSE z \in {target_zones[i] : i \in 1..Len(target_zones)} : z.id = zid

\* is_full with ">" for ">=": a zone at capacity still admits
is_full_OffByOne(counts, zid) == counts[zid] > Zone(zid).capacity

\* TargetZone.is_full
is_full(counts, zid) == counts[zid] >= Zone(zid).capacity

\* add_object that admits the object without counting it
add_object_NoCount(counts, zid) ==
    IF is_full(counts, zid)
    THEN [ok |-> FALSE, counts |-> counts]
    ELSE [ok |-> TRUE, counts |-> counts]

\* TargetZone.add_object: the new count, and whether one was added
add_object(counts, zid) ==
    IF is_full(counts, zid)
    THEN [ok |-> FALSE, counts |-> counts]
    ELSE [ok |-> TRUE, counts |-> [counts EXCEPT ![zid] = @ + 1]]

----------------------------------------------------------------------------
(* Object/zone registry, object_manager.py *)

IdNames == <<"obj_0", "obj_1", "obj_2", "obj_3">>

\* f"obj_{self._next_id}"
ObjId(n) == IdNames[n + 1]

\* the initial positions a caller of create_objects supplies; NoPos is
\* "no position supplied"
InitialPositions == {NoPos, Pos(5, 0)}

\* create_objects that does not advance the id counter
RECURSIVE create_objects_ReusesId(_, _, _)
create_objects_ReusesId(objs, nid, specs) ==
    IF specs = <<>> THEN [objs |-> objs, next_id |-> nid, created_ids |-> <<>>]
    ELSE LET obj_id == ObjId(nid)
             position == IF Head(specs) # NoPos THEN Head(specs)
                         ELSE Center(source_area.bounds)
             obj == [state |-> "in_source", position |-> position]
             rest == create_objects_ReusesId([id \in DOMAIN objs \cup {obj_id} |->
                                        IF id = obj_id THEN obj ELSE objs[id]],
                                    nid, Tail(specs))
         IN  [rest EXCEPT !.created_ids = <<obj_id>> \o @]

\* ObjectManager.create_objects: one object per spec, in order; a spec is
\* the supplied initial position
RECURSIVE create_objects(_, _, _)
create_objects(objs, nid, specs) ==
    IF specs = <<>> THEN [objs |-> objs, next_id |-> nid, created_ids |-> <<>>]
    ELSE LET obj_id == ObjId(nid)
             position == IF Head(specs) # NoPos THEN Head(specs)
                         ELSE Center(source_area.bounds)
             obj == [state |-> "in_source", position |-> position]
             rest == create_objects([id \in DOMAIN objs \cup {obj_id} |->
                                        IF id = obj_id THEN obj ELSE objs[id]],
                                    nid + 1, Tail(specs))
         IN  [rest EXCEPT !.created_ids = <<obj_id>> \o @]

\* remove_from_source without the test that the object is InSource
remove_from_source_AnyState(objs, id) ==
    IF id \notin DOMAIN objs THEN [ok |-> FALSE, objs |-> objs]
    ELSE [ok |-> TRUE, objs |-> [objs EXCEPT ![id].state = "held"]]

\* ObjectManager.remove_from_source
remove_from_source(objs, id) ==
    IF id \notin DOMAIN objs THEN [ok |-> FALSE, objs |-> objs]
    ELSE IF objs[id].state # "in_source" THEN [ok |-> FALSE, objs |-> objs]
    ELSE [ok |-> TRUE, objs |-> [objs EXCEPT ![id].state = "held"]]

\* place_in_zone without the test that the object is Held
place_in_zone_AnyState(objs, counts, id, zid) ==
    IF id \notin DOMAIN objs THEN [ok |-> FALSE, objs |-> objs, counts |-> counts]
    ELSE IF is_full(counts, zid) THEN [ok |-> FALSE, objs |-> objs, counts |-> counts]
    ELSE LET added == add_object(counts, zid) IN
         IF ~added.ok THEN [ok |-> FALSE, objs |-> objs, counts |-> counts]
         ELSE [ok |-> TRUE,
               objs |-> [objs EXCEPT ![id] = [state |-> "in_zone",
                                              position |-> Center(Zone(zid).bounds)]],
               counts |-> added.counts]

\* place_in_zone that adds to the zone before it looks at the object's state
place_in_zone_CountsFirst(objs, counts, id, zid) ==
    IF id \notin DOMAIN objs THEN [ok |-> FALSE, objs |-> objs, counts |-> counts]
    ELSE LET added == add_object(counts, zid) IN
         IF ~added.ok THEN [ok |-> FALSE, objs |-> objs, counts |-> counts]
         ELSE IF objs[id].state # "held"
              THEN [ok |-> FALSE, objs |-> objs, counts |-> added.counts]
              ELSE [ok |-> TRUE,
                    objs |-> [objs EXCEPT ![id] = [state |-> "in_zone",
                                                   position |-> Center(Zone(zid).bounds)]],
                    counts |-> added.counts]

\* ObjectManager.place_in_zone
place_in_zone(objs, counts, id, zid) ==
    IF id \notin DOMAIN objs THEN [ok |-> FALSE, objs |-> objs, counts |-> counts]
    ELSE IF objs[id].state # "held" THEN [ok |-> FALSE, objs |-> objs, counts |-> counts]
    ELSE IF is_full(counts, zid) THEN [ok |-> FALSE, objs |-> objs, counts |-> counts]
    ELSE LET added == add_object(counts, zid) IN
         IF ~added.ok THEN [ok |-> FALSE, objs |-> objs, counts |-> counts]
         ELSE [ok |-> TRUE,
               objs |-> [objs EXCEPT ![id] = [state |-> "in_zone",
                                              position |-> Center(Zone(zid).bounds)]],
               counts |-> added.counts]

\* return_to_source that also takes an object out of a zone
return_to_source_FromZone(objs, id) ==
    IF id \notin DOMAIN objs THEN [ok |-> FALSE, objs |-> objs]
    ELSE IF objs[id].state \notin {"held", "in_zone"} THEN [ok |-> FALSE, objs |-> objs]
    ELSE [ok |-> TRUE,
          objs |-> [objs EXCEPT ![id] = [state |-> "in_source",
                                         position |-> Center(source_area.bounds)]]]

\* return_to_source that leaves the object where it is
return_to_source_KeepsPosition(objs, id) ==
    IF id \notin DOMAIN objs THEN [ok |-> FALSE, objs |-> objs]
    ELSE IF objs[id].state # "held" THEN [ok |-> FALSE, objs |-> objs]
    ELSE [ok |-> TRUE, objs |-> [objs EXCEPT ![id].state = "in_source"]]

\* ObjectManager.return_to_source
return_to_source(objs, id) ==
    IF id \notin DOMAIN objs THEN [ok |-> FALSE, objs |-> objs]
    ELSE IF objs[id].state # "held" THEN [ok |-> FALSE, objs |-> objs]
    ELSE [ok |-> TRUE,
          objs |-> [objs EXCEPT ![id] = [state |-> "in_source",
                                         position |-> Center(source_area.bounds)]]]

----------------------------------------------------------------------------
(* Collision checker and path planner, arm_controller.py *)

\* buffer = 0.5
Buffer == 50

\* "if distance < 0.01", in hundredths
Epsilon == 1

Min2(a, b) == IF a <= b THEN a ELSE b
Max2(a, b) == IF a >= b THEN a ELSE b

\* a / b rounded to the nearest integer, b > 0 (float division at the
\* model's resolution)
RoundDiv(a, b) == (2 * a + b) \div (2 * b)

RECURSIVE SqrtSearch(_, _, _)
SqrtSearch(n, lo, hi) ==
    IF lo >= hi THEN lo
    ELSE LET mid == (lo + hi + 1) \div 2 IN
         IF mid * mid <= n THEN SqrtSearch(n, mid, hi) ELSE SqrtSearch(n, lo, mid - 1)

\* (dx ** 2 + dy ** 2) ** 0.5, rounded down to the model's resolution
Distance(dx, dy) ==
    LET n == dx * dx + dy * dy IN SqrtSearch(n, 0, Max2(Max2(dx, -dx), Max2(dy, -dy)) * 2)

\* the path's bounding box: the box enclosing start and end, expanded by
\* the buffer on every side
PathBox(start, end) ==
    [min |-> <<Min2(start[1], end[1]) - Buffer, Min2(start[2], end[2]) - Buffer>>,
     max |-> <<Max2(start[1], end[1]) + Buffer, Max2(start[2], end[2]) + Buffer>>]

\* check_collision that does not skip the objects in state Held
check_collision_CountsHeld(start, end, objs, ignore_object_id) ==
    \E path_bbox \in {PathBox(start, end)} :
        \E id \in DOMAIN objs :
            /\ ~(ignore_object_id # None /\ id = ignore_object_id)
            /\ Contains(path_bbox, objs[id].position)

\* check_collision over the box of the segment itself, without the buffer
check_collision_NoBuffer(start, end, objs, ignore_object_id) ==
    \E path_bbox \in {[min |-> <<Min2(start[1], end[1]), Min2(start[2], end[2])>>,
                        max |-> <<Max2(start[1], end[1]), Max2(start[2], end[2])>>]} :
        \E id \in DOMAIN objs :
            /\ objs[id].state # "held"
            /\ ~(ignore_object_id # None /\ id = ignore_object_id)
            /\ Contains(path_bbox, objs[id].position)

\* RoboticArmController.check_collision
check_collision(start, end, objs, ignore_object_id) ==
    \E path_bbox \in {PathBox(start, end)} :
        \E id \in DOMAIN objs :
            /\ objs[id].state # "held"
            /\ ~(ignore_object_id # None /\ id = ignore_object_id)
            /\ Contains(path_bbox, objs[id].position)

base_offsets == <<2, 3, 4, 5, 6, 8>>
directions == <<1, -1>>
fractions == <<20, 33, 50, 67, 80>>

\* start + (dx, dy) * fraction + direction * offset * perp, where perp is
\* (-dy, dx) / distance and fraction is in hundredths
Waypoint(start, dx, dy, distance, fraction, direction, offset) ==
    <<start[1] + RoundDiv(dx * fraction, 100)
               + RoundDiv(direction * offset * Unit * (-dy), distance),
      start[2] + RoundDiv(dy * fraction, 100)
               + RoundDiv(direction * offset * Unit * dx, distance)>>

NumCandidates1 == Len(base_offsets) * Len(directions) * Len(fractions)

\* the candidates of strategy 1 in the order of its loops: offset
\* ascending, then direction +1 before -1, then fraction ascending
Candidates1(start, end) ==
    LET dx == end[1] - start[1]
        dy == end[2] - start[2]
    IN  CHOOSE cands \in
            {[i \in 1..NumCandidates1 |->
                Waypoint(start, dx, dy, distance,
                         fractions[((i - 1) % Len(fractions)) + 1],
                         directions[(((i - 1) \div Len(fractions)) % Len(directions)) + 1],
                         base_offsets[((i - 1) \div (Len(fractions) * Len(directions))) + 1])] :
                distance \in {Distance(dx, dy)}} : TRUE

\* Clear1 without the check of the second sub-segment
Clear1_FirstSegmentOnly(start, end, objs, ignore, wp) ==
    ~check_collision(start, wp, objs, ignore)

\* Clear1 without the check of the first sub-segment
Clear1_SecondSegmentOnly(start, end, objs, ignore, wp) ==
    ~check_collision(wp, end, objs, ignore)

Clear1(start, end, objs, ignore, wp) ==
    /\ ~check_collision(start, wp, objs, ignore)
    /\ ~check_collision(wp, end, objs, ignore)

NumCandidates2 == Len(base_offsets) * Len(directions)

\* the candidate pairs of strategy 2 in the order of its loops: fractions
\* 0.3 and 0.7 on the same offset
Candidates2(start, end) ==
    LET dx == end[1] - start[1]
        dy == end[2] - start[2]
    IN  CHOOSE cands \in
            {[i \in 1..NumCandidates2 |->
                LET direction == directions[((i - 1) % Len(directions)) + 1]
                    offset == base_offsets[((i - 1) \div Len(directions)) + 1]
                IN  <<Waypoint(start, dx, dy, distance, 30, direction, offset),
                      Waypoint(start, dx, dy, distance, 70, direction, offset)>>] :
                distance \in {Distance(dx, dy)}} : TRUE

Clear2(start, end, objs, ignore, wps) ==
    /\ ~check_collision(start, wps[1], objs, ignore)
    /\ ~check_collision(wps[1], wps[2], objs, ignore)
    /\ ~check_collision(wps[2], end, objs, ignore)

\* Strategy2 that tries the pairs from the last one to the first
RECURSIVE Strategy2_FromLast(_, _, _, _, _, _)
Strategy2_FromLast(start, end, objs, ignore, cands, i) ==
    IF i > NumCandidates2 THEN [found |-> FALSE, waypoints |-> <<>>]
    ELSE IF Clear2(start, end, objs, ignore, cands[NumCandidates2 + 1 - i])
         THEN [found |-> TRUE, waypoints |-> cands[NumCandidates2 + 1 - i]]
         ELSE Strategy2_FromLast(start, end, objs, ignore, cands, i + 1)

\* the first candidate, from the i-th on, that is clear
RECURSIVE Strategy2(_, _, _, _, _, _)
Strategy2(start, end, objs, ignore, cands, i) ==
    IF i > NumCandidates2 THEN [found |-> FALSE, waypoints |-> <<>>]
    ELSE IF Clear2(start, end, objs, ignore, cands[i])
         THEN [found |-> TRUE, waypoints |-> cands[i]]
         ELSE Strategy2(start, end, objs, ignore, cands, i + 1)

\* Strategy1 that tries the candidates from the last one to the first
RECURSIVE Strategy1_FromLast(_, _, _, _, _, _)
Strategy1_FromLast(start, end, objs, ignore, cands, i) ==
    IF i > NumCandidates1 THEN [found |-> FALSE, waypoints |-> <<>>]
    ELSE IF Clear1(start, end, objs, ignore, cands[NumCandidates1 + 1 - i])
         THEN [found |-> TRUE, waypoints |-> <<cands[NumCandidates1 + 1 - i]>>]
         ELSE Strategy1_FromLast(start, end, objs, ignore, cands, i + 1)

RECURSIVE Strategy1(_, _, _, _, _, _)
Strategy1(start, end, objs, ignore, cands, i) ==
    IF i > NumCandidates1 THEN [found |-> FALSE, waypoints |-> <<>>]
    ELSE IF Clear1(start, end, objs, ignore, cands[i])
         THEN [found |-> TRUE, waypoints |-> <<cands[i]>>]
         ELSE Strategy1(start, end, objs, ignore, cands, i + 1)

\* find_alternative_path that answers a zero-distance request with the empty
\* route instead of None
find_alternative_path_ZeroDistanceFound(start, end, objs, ignore) ==
    IF Distance(end[1] - start[1], end[2] - start[2]) < Epsilon
    THEN [found |-> TRUE, waypoints |-> <<>>]
    ELSE CHOOSE path \in
             {IF single.found THEN single
              ELSE CHOOSE double \in {Strategy2(start, end, objs, ignore, cands2, 1) :
                                         cands2 \in {Candidates2(start, end)}} : TRUE :
                 single \in {Strategy1(start, end, objs, ignore, cands1, 1) :
                                 cands1 \in {Candidates1(start, end)}}} : TRUE

\* RoboticArmController._find_alternative_path: found = FALSE is None
find_alternative_path(start, end, objs, ignore) ==
    IF Distance(end[1] - start[1], end[2] - start[2]) < Epsilon
    THEN [found |-> FALSE, waypoints |-> <<>>]
    ELSE CHOOSE path \in
             {IF single.found THEN single
              ELSE CHOOSE double \in {Strategy2(start, end, objs, ignore, cands2, 1) :
                                         cands2 \in {Candidates2(start, end)}} : TRUE :
                 single \in {Strategy1(start, end, objs, ignore, cands1, 1) :
                                 cands1 \in {Candidates1(start, end)}}} : TRUE

\* what move_to was called with and the waypoints it went through (none
\* when the direct segment was clear or no route was found)
Route(target, ignore, waypoints) ==
    [target |-> target, ignore |-> ignore, waypoints |-> waypoints]

\* no move_to since the last call began
NoMove == Route(NoPos, None, <<>>)

\* move_to that reports the collision but leaves the arm's state and target
\* as they were
move_to_KeepsState(a, target, objs, ignore) ==
    IF check_collision(a.position, target, objs, ignore)
       /\ ~find_alternative_path(a.position, target, objs, ignore).found
    THEN [arm |-> a,
          result |-> [success |-> FALSE, error |-> "collision",
                      final_position |-> a.position],
          route |-> Route(target, ignore, <<>>), blocked |-> TRUE]
    ELSE [arm |-> [a EXCEPT !.target_position = target, !.position = target],
          result |-> [success |-> TRUE, error |-> None, final_position |-> target],
          route |-> Route(target, ignore,
                          find_alternative_path(a.position, target, objs, ignore).waypoints),
          blocked |-> check_collision(a.position, target, objs, ignore)]

\* move_to that takes a target the arm already has as reached, without
\* looking at the registry
move_to_RemembersTarget(a, target, objs, ignore) ==
    IF a.target_position = target
    THEN [arm |-> a,
          result |-> [success |-> TRUE, error |-> None, final_position |-> target],
          route |-> Route(target, ignore, <<>>), blocked |-> FALSE]
    ELSE
        IF check_collision(a.position, target, objs, ignore)
        THEN CHOOSE moved \in
                 {IF waypoints.found
                  THEN [arm |-> [a EXCEPT !.position = target, !.target_position = target],
                        result |-> [success |-> TRUE, error |-> None, final_position |-> target],
                        route |-> Route(target, ignore, waypoints.waypoints), blocked |-> TRUE]
                  ELSE [arm |-> [a EXCEPT !.state = "idle", !.target_position = NoPos],
                        result |-> [success |-> FALSE, error |-> "collision",
                                    final_position |-> a.position],
                        route |-> Route(target, ignore, <<>>), blocked |-> TRUE] :
                     waypoints \in {find_alternative_path(a.position, target, objs, ignore)}} : TRUE
        ELSE [arm |-> [a EXCEPT !.target_position = target, !.position = target],
              result |-> [success |-> TRUE, error |-> None, final_position |-> target],
              route |-> Route(target, ignore, <<>>), blocked |-> FALSE]

\* move_to that clears the target on a collision but does not put the arm
\* back to Idle
move_to_FailsInPlace(a, target, objs, ignore) ==
    IF check_collision(a.position, target, objs, ignore)
    THEN CHOOSE moved \in
             {IF waypoints.found
              THEN [arm |-> [a EXCEPT !.position = target, !.target_position = target],
                    result |-> [success |-> TRUE, error |-> None, final_position |-> target],
                    route |-> Route(target, ignore, waypoints.waypoints), blocked |-> TRUE]
              ELSE [arm |-> [a EXCEPT !.target_position = NoPos],
                    result |-> [success |-> FALSE, error |-> "collision",
                                final_position |-> a.position],
                    route |-> Route(target, ignore, <<>>), blocked |-> TRUE] :
                 waypoints \in {find_alternative_path(a.position, target, objs, ignore)}} : TRUE
    ELSE [arm |-> [a EXCEPT !.target_position = target, !.position = target],
          result |-> [success |-> TRUE, error |-> None, final_position |-> target],
          route |-> Route(target, ignore, <<>>), blocked |-> FALSE]

\* RoboticArmController.move_to: the arm after the call, the
\* MovementResult and the waypoints passed through
move_to(a, target, objs, ignore) ==
    IF check_collision(a.position, target, objs, ignore)
    THEN CHOOSE moved \in
             {IF waypoints.found
              THEN [arm |-> [a EXCEPT !.position = target, !.target_position = target],
                    result |-> [success |-> TRUE, error |-> None, final_position |-> target],
                    route |-> Route(target, ignore, waypoints.waypoints), blocked |-> TRUE]
              ELSE [arm |-> [a EXCEPT !.state = "idle", !.target_position = NoPos],
                    result |-> [success |-> FALSE, error |-> "collision",
                                final_position |-> a.position],
                    route |-> Route(target, ignore, <<>>), blocked |-> TRUE] :
                 waypoints \in {find_alternative_path(a.position, target, objs, ignore)}} : TRUE
    ELSE [arm |-> [a EXCEPT !.target_position = target, !.position = target],
          result |-> [success |-> TRUE, error |-> None, final_position |-> target],
          route |-> Route(target, ignore, <<>>), blocked |-> FALSE]

-----------------------------------------------------------------------------
(* Metrics collector, metrics_collector.py *)

\* an Optional[bool]: None, or the boolean as the string Python prints
OptionalBool(b) == IF b THEN "True" ELSE "False"

\* an OperationRecord: the fields the collector reads (timestamp, object_id
\* and retry_count are carried along unread and are left out)
OperationRecord(operation_type, success, error, correct_placement) ==
    [operation_type |-> operation_type, success |-> success, error |-> error,
     correct_placement |-> correct_placement]

\* MetricsCollector.__init__
InitialMetrics ==
    [successful_picks |-> 0, failed_picks |-> 0,
     successful_places |-> 0, failed_places |-> 0,
     collisions |-> 0, missed_picks |-> 0,
     correct_placements |-> 0, incorrect_placements |-> 0,
     start_time |-> None, end_time |-> None,
     operation_history |-> <<>>, metrics_history |-> <<>>]

\* MetricsCollector.record_pick
record_pick(m, success, missed) ==
    LET counted == IF success
                   THEN [m EXCEPT !.successful_picks = @ + 1]
                   ELSE IF missed
                        THEN [m EXCEPT !.failed_picks = @ + 1, !.missed_picks = @ + 1]
                        ELSE [m EXCEPT !.failed_picks = @ + 1]
        error == IF missed /\ ~success THEN "missed_pick" ELSE None
    IN  [counted EXCEPT !.operation_history =
            Append(@, OperationRecord("pick", success, error, None))]

\* MetricsCollector.record_place
record_place(m, success, correct_zone, error) ==
    LET counted == IF success
                   THEN IF correct_zone
                        THEN [m EXCEPT !.successful_places = @ + 1,
                                       !.correct_placements = @ + 1]
                        ELSE [m EXCEPT !.successful_places = @ + 1,
                                       !.incorrect_placements = @ + 1]
                   ELSE [m EXCEPT !.failed_places = @ + 1]
    IN  [counted EXCEPT !.operation_history =
            Append(@, OperationRecord("place", success, error,
                                      IF success THEN OptionalBool(correct_zone)
                                                 ELSE None))]

\* record_collision that also counts the collision as a failed pick
record_collision_CountsFailedPick(m) ==
    [m EXCEPT !.collisions = @ + 1, !.failed_picks = @ + 1,
              !.operation_history =
                  Append(@, OperationRecord("pick", FALSE, "collision", None))]

\* MetricsCollector.record_collision
record_collision(m) ==
    [m EXCEPT !.collisions = @ + 1,
              !.operation_history =
                  Append(@, OperationRecord("pick", FALSE, "collision", None))]

\* MetricsCollector.record_operation; "if operation.correct_placement" takes
\* None as false
record_operation(m, operation) ==
    LET appended == [m EXCEPT !.operation_history = Append(@, operation)]
        counted ==
            IF operation.operation_type = "pick"
            THEN IF operation.success
                 THEN [appended EXCEPT !.successful_picks = @ + 1]
                 ELSE IF operation.error = "missed_pick"
                      THEN [appended EXCEPT !.failed_picks = @ + 1, !.missed_picks = @ + 1]
                      ELSE [appended EXCEPT !.failed_picks = @ + 1]
            ELSE IF operation.operation_type = "place"
            THEN IF operation.success
                 THEN IF operation.correct_placement = OptionalBool(TRUE)
                      THEN [appended EXCEPT !.successful_places = @ + 1,
                                            !.correct_placements = @ + 1]
                      ELSE [appended EXCEPT !.successful_places = @ + 1,
                                            !.incorrect_placements = @ + 1]
                 ELSE [appended EXCEPT !.failed_places = @ + 1]
            ELSE appended
    IN  IF operation.error = "collision"
        THEN [counted EXCEPT !.collisions = @ + 1]
        ELSE counted

\* MetricsCollector.start_timing and stop_timing; now is time()
start_timing(m, now) == [m EXCEPT !.start_time = now, !.end_time = None]
stop_timing(m, now) == [m EXCEPT !.end_time = now]

\* MetricsCollector.calculate_metrics: the counts of the MetricsReport (its
\* rates and times are floating-point quotients of these and are left out)
calculate_metrics(m, total_objects, cycle_complete) ==
    [total_objects |-> total_objects,
     successful_operations |-> m.successful_picks + m.successful_places,
     failed_operations |-> m.failed_picks + m.failed_places,
     collisions |-> m.collisions,
     missed_picks |-> m.missed_picks,
     cycle_complete |-> cycle_complete,
     successful_picks |-> m.successful_picks,
     failed_picks |-> m.failed_picks,
     successful_places |-> m.successful_places,
     failed_places |-> m.failed_places,
     correct_placements |-> m.correct_placements,
     incorrect_placements |-> m.incorrect_placements]

\* reset that also drops the saved reports
metrics_reset_ClearsHistory(m) == InitialMetrics

\* MetricsCollector.reset
metrics_reset(m) ==
    [m EXCEPT !.successful_picks = 0, !.failed_picks = 0,
              !.successful_places = 0, !.failed_places = 0,
              !.collisions = 0, !.missed_picks = 0,
              !.correct_placements = 0, !.incorrect_placements = 0,
              !.start_time = None, !.end_time = None,
              !.operation_history = <<>>]

\* MetricsCollector.save_to_history, get_history, get_latest_report,
\* clear_history
save_to_history(m, report) == [m EXCEPT !.metrics_history = Append(@, report)]
get_history(m) == m.metrics_history
get_latest_report(m) ==
    IF m.metrics_history = <<>> THEN None ELSE m.metrics_history[Len(m.metrics_history)]
clear_history(m) == [m EXCEPT !.metrics_history = <<>>]

----------------------------------------------------------------------------
(* Arm state machine, arm_controller.py *)

\* RoboticArmController.__init__
InitialArm ==
    [state |-> "idle", position |-> <<0, 0>>, held_object |-> None,
     target_position |-> NoPos, retry_count |-> 0]

NoResult ==
    [kind |-> "none", success |-> FALSE, error |-> None, retry_count |-> 0,
     object_id |-> None, final_position |-> NoPos]

OperationResult(kind, success, object_id, error, retry_count) ==
    [kind |-> kind, success |-> success, error |-> error, retry_count |-> retry_count,
     object_id |-> object_id, final_position |-> NoPos]

MovementResult(r) ==
    [kind |-> "move", success |-> r.success, error |-> r.error, retry_count |-> 0,
     object_id |-> None, final_position |-> r.final_position]

\* no pick/place call is running
NoCall ==
    [op |-> "none", object_id |-> None, zone |-> None, max_retries |-> 0,
     after_place |-> FALSE, moves |-> 0]

\* the call before this one was a place_object that succeeded
AfterPlace == result.kind = "place" /\ result.success

\* the inputs the operations are called with
ObjectIds == {ObjId(n) : n \in 0..MaxObjects}
\* max_retries is an unchecked int: the values below zero (the loop is not
\* entered) are drawn down to MinRetry
MinRetry == -2
RetryChoices == MinRetry..MaxRetry
MoveTargets == {Pos(10, 0)}
IgnoreChoices == {None, ObjId(0)}
SpecLists ==
    {<<p>> : p \in InitialPositions} \cup
    {<<p, q>> : <<p, q>> \in InitialPositions \X InitialPositions}

Init ==
    /\ arm = InitialArm
    /\ objects = [id \in {} |-> [state |-> "in_source", position |-> <<0, 0>>]]
    /\ next_id = 0
    /\ zone_count = [z \in ZoneIds |-> 0]
    /\ pc = "ready"
    /\ call = NoCall
    /\ result = NoResult
    /\ route = NoMove
    /\ cb = <<>>
    /\ metrics = InitialMetrics

\* the call returns r: its frame is gone
Return(r) ==
    /\ result' = r
    /\ pc' = "ready"
    /\ call' = NoCall

\* the call goes on at label: nothing is returned yet
Goto(label) ==
    /\ pc' = label
    /\ UNCHANGED <<call, result>>

\* the running call goes on at a label after one more call of move_to;
\* call.moves counts the movements the running call has attempted
Moved(label) ==
    /\ pc' = label
    /\ call' = [call EXCEPT !.moves = @ + 1]
    /\ UNCHANGED result

\* ObjectManager.create_objects(specs)
CreateObjects(specs) ==
    /\ pc = "ready"
    /\ next_id + Len(specs) <= MaxObjects
    /\ LET created == create_objects(objects, next_id, specs) IN
        /\ objects' = created.objs
        /\ next_id' = created.next_id
    /\ Return([NoResult EXCEPT !.kind = "create", !.success = TRUE])
    /\ route' = NoMove
    /\ cb' = <<>>
    /\ UNCHANGED <<arm, zone_count, metrics>>

\* reset that forgets to clear the retry counter
Reset_KeepsRetryCount ==
    /\ pc = "ready"
    /\ arm' = [state |-> "idle", position |-> <<0, 0>>, held_object |-> None,
               target_position |-> NoPos, retry_count |-> arm.retry_count]
    /\ Return([NoResult EXCEPT !.kind = "reset", !.success = TRUE])
    /\ route' = NoMove
    /\ cb' = <<>>
    /\ UNCHANGED <<objects, next_id, zone_count, metrics>>

\* RoboticArmController.reset
Reset ==
    /\ pc = "ready"
    /\ arm' = [state |-> "idle", position |-> <<0, 0>>, held_object |-> None,
               target_position |-> NoPos, retry_count |-> 0]
    /\ Return([NoResult EXCEPT !.kind = "reset", !.success = TRUE])
    /\ route' = NoMove
    /\ cb' = <<>>
    /\ UNCHANGED <<objects, next_id, zone_count, metrics>>

\* RoboticArmController.move_to called by the driver
MoveTo(target, ignore) ==
    /\ pc = "ready"
    /\ \E m \in {move_to(arm, target, objects, ignore)} :
        /\ arm' = m.arm
        /\ route' = m.route
        /\ Return(MovementResult(m.result))
    /\ cb' = <<>>
    /\ UNCHANGED <<objects, next_id, zone_count, metrics>>

\* PickCall that resets the retry counter before it tests its guards
PickCall_ResetsFirst(object_id, max_retries) ==
    /\ pc = "ready"
    /\ arm' = [arm EXCEPT !.retry_count = 0]
    /\ IF arm.state # "idle"
       THEN Return(OperationResult("pick", FALSE, object_id, "invalid_state", 0))
       ELSE IF object_id \notin DOMAIN objects
       THEN Return(OperationResult("pick", FALSE, object_id, "object_not_found", 0))
       ELSE IF objects[object_id].state # "in_source"
       THEN Return(OperationResult("pick", FALSE, object_id, "invalid_state", 0))
       ELSE /\ pc' = "pick_loop"
            /\ call' = [op |-> "pick", object_id |-> object_id, zone |-> None,
                        max_retries |-> max_retries, after_place |-> AfterPlace, moves |-> 0]
            /\ result' = NoResult
    /\ route' = NoMove
    /\ cb' = <<>>
    /\ UNCHANGED <<objects, next_id, zone_count, metrics>>

\* PickCall that does not reset the retry counter
PickCall_KeepsRetryCount(object_id, max_retries) ==
    /\ pc = "ready"
    /\ IF arm.state # "idle"
       THEN /\ Return(OperationResult("pick", FALSE, object_id, "invalid_state", 0))
            /\ UNCHANGED arm
       ELSE IF object_id \notin DOMAIN objects
       THEN /\ Return(OperationResult("pick", FALSE, object_id, "object_not_found", 0))
            /\ UNCHANGED arm
       ELSE IF objects[object_id].state # "in_source"
       THEN /\ Return(OperationResult("pick", FALSE, object_id, "invalid_state", 0))
            /\ UNCHANGED arm
       ELSE /\ UNCHANGED arm
            /\ pc' = "pick_loop"
            /\ call' = [op |-> "pick", object_id |-> object_id, zone |-> None,
                        max_retries |-> max_retries, after_place |-> AfterPlace, moves |-> 0]
            /\ result' = NoResult
    /\ route' = NoMove
    /\ cb' = <<>>
    /\ UNCHANGED <<objects, next_id, zone_count, metrics>>

\* pick_object, entry: the guards, then "self._retry_count = 0"
PickCall(object_id, max_retries) ==
    /\ pc = "ready"
    /\ IF arm.state # "idle"
       THEN /\ Return(OperationResult("pick", FALSE, object_id, "invalid_state", 0))
            /\ UNCHANGED arm
       ELSE IF object_id \notin DOMAIN objects
       THEN /\ Return(OperationResult("pick", FALSE, object_id, "object_not_found", 0))
            /\ UNCHANGED arm
       ELSE IF objects[object_id].state # "in_source"
       THEN /\ Return(OperationResult("pick", FALSE, object_id, "invalid_state", 0))
            /\ UNCHANGED arm
       ELSE /\ arm' = [arm EXCEPT !.retry_count = 0]
            /\ pc' = "pick_loop"
            /\ call' = [op |-> "pick", object_id |-> object_id, zone |-> None,
                        max_retries |-> max_retries, after_place |-> AfterPlace, moves |-> 0]
            /\ result' = NoResult
    /\ route' = NoMove
    /\ cb' = <<>>
    /\ UNCHANGED <<objects, next_id, zone_count, metrics>>

\* PickLoop that lets one attempt more through: "retry_count <= max_retries + 1"
PickLoop_OneMoreAttempt ==
    /\ pc = "pick_loop"
    /\ IF arm.retry_count <= call.max_retries + 1
       THEN /\ arm' = [arm EXCEPT !.state = "moving",
                                  !.target_position = objects[call.object_id].position]
            /\ Goto("pick_move")
       ELSE /\ arm' = [arm EXCEPT !.state = "idle", !.target_position = NoPos]
            /\ Return(OperationResult("pick", FALSE, call.object_id,
                                      "max_retries_exceeded", arm.retry_count))
    /\ UNCHANGED <<objects, next_id, zone_count, route, cb, metrics>>

\* pick_object, "while self._retry_count <= max_retries" and the code after
\* the loop
PickLoop ==
    /\ pc = "pick_loop"
    /\ IF arm.retry_count <= call.max_retries
       THEN /\ arm' = [arm EXCEPT !.state = "moving",
                                  !.target_position = objects[call.object_id].position]
            /\ Goto("pick_move")
       ELSE /\ arm' = [arm EXCEPT !.state = "idle", !.target_position = NoPos]
            /\ Return(OperationResult("pick", FALSE, call.object_id,
                                      "max_retries_exceeded", arm.retry_count))
    /\ UNCHANGED <<objects, next_id, zone_count, route, cb, metrics>>

\* PickMove that passes the object's id as the one to ignore on the first
\* attempt only
PickMove_IgnoresOnFirstAttempt ==
    /\ pc = "pick_move"
    /\ \E m \in {move_to(arm, objects[call.object_id].position, objects,
                          IF arm.retry_count = 0 THEN call.object_id ELSE None)} :
        /\ arm' = m.arm
        /\ route' = m.route
        /\ IF ~m.result.success
           THEN Return(OperationResult("pick", FALSE, call.object_id, "collision",
                                       arm.retry_count))
           ELSE Moved("pick_attempt")
    /\ UNCHANGED <<objects, next_id, zone_count, cb, metrics>>

\* pick_object, the movement to the object and the return on collision
PickMove ==
    /\ pc = "pick_move"
    /\ \E m \in {move_to(arm, objects[call.object_id].position, objects, call.object_id)} :
        /\ arm' = m.arm
        /\ route' = m.route
        /\ IF ~m.result.success
           THEN Return(OperationResult("pick", FALSE, call.object_id, "collision",
                                       arm.retry_count))
           ELSE Moved("pick_attempt")
    /\ UNCHANGED <<objects, next_id, zone_count, cb, metrics>>

\* PickAttempt that takes the object out of the source before it looks at
\* what the callback returned
PickAttempt_RemovesFirst(pick_failed) ==
    /\ pc = "pick_attempt"
    /\ cb' = Append(cb, pick_failed)
    /\ \E removed \in {remove_from_source(objects, call.object_id)} :
        /\ objects' = removed.objs
        /\ IF ~pick_failed /\ removed.ok
           THEN /\ arm' = [arm EXCEPT !.held_object = call.object_id,
                                      !.state = "holding", !.target_position = NoPos]
                /\ Return(OperationResult("pick", TRUE, call.object_id, None,
                                          arm.retry_count))
           ELSE IF arm.retry_count + 1 > call.max_retries
                THEN /\ arm' = [arm EXCEPT !.retry_count = @ + 1, !.state = "idle",
                                           !.target_position = NoPos]
                     /\ Return(OperationResult("pick", FALSE, call.object_id,
                                               "max_retries_exceeded", arm.retry_count + 1))
                ELSE /\ arm' = [arm EXCEPT !.retry_count = @ + 1, !.state = "picking"]
                     /\ Goto("pick_loop")
    /\ UNCHANGED <<next_id, zone_count, route, metrics>>

\* pick_object, one attempt: the callback, remove_from_source, the retry
\* counter.  pick_failed is what the callback returns (FALSE also stands for
\* a call without a callback).
PickAttempt(pick_failed) ==
    /\ pc = "pick_attempt"
    /\ cb' = Append(cb, pick_failed)
    /\ \E removed \in {remove_from_source(objects, call.object_id)},
          count \in {arm.retry_count + 1} :
           IF ~pick_failed /\ removed.ok
           THEN /\ objects' = removed.objs
                /\ arm' = [arm EXCEPT !.held_object = call.object_id,
                                      !.state = "holding", !.target_position = NoPos]
                /\ Return(OperationResult("pick", TRUE, call.object_id, None,
                                          arm.retry_count))
           ELSE /\ UNCHANGED objects
                /\ IF count > call.max_retries
                   THEN /\ arm' = [arm EXCEPT !.retry_count = count, !.state = "idle",
                                              !.target_position = NoPos]
                        /\ Return(OperationResult("pick", FALSE, call.object_id,
                                                  "max_retries_exceeded", count))
                   ELSE /\ arm' = [arm EXCEPT !.retry_count = count, !.state = "picking"]
                        /\ Goto("pick_loop")
    /\ UNCHANGED <<next_id, zone_count, route, metrics>>

\* "zone_center" of place_object
ZoneCenter(zid) == Center(Zone(zid).bounds)

\* PlaceCall without the zone-full pre-check
PlaceCall_NoPreCheck(zid, max_retries) ==
    /\ pc = "ready"
    /\ IF arm.state # "holding" \/ arm.held_object = None
       THEN /\ Return(OperationResult("place", FALSE, arm.held_object, "invalid_state", 0))
            /\ UNCHANGED arm
       ELSE /\ arm' = [arm EXCEPT !.retry_count = 0]
            /\ pc' = "place_loop"
            /\ call' = [op |-> "place", object_id |-> arm.held_object, zone |-> zid,
                        max_retries |-> max_retries, after_place |-> AfterPlace, moves |-> 0]
            /\ result' = NoResult
    /\ route' = NoMove
    /\ cb' = <<>>
    /\ UNCHANGED <<objects, next_id, zone_count, metrics>>

\* place_object, entry: the guards, the zone-full pre-check, then
\* "self._retry_count = 0"
PlaceCall(zid, max_retries) ==
    /\ pc = "ready"
    /\ IF arm.state # "holding" \/ arm.held_object = None
       THEN /\ Return(OperationResult("place", FALSE, arm.held_object, "invalid_state", 0))
            /\ UNCHANGED <<arm, objects>>
       ELSE LET returned == return_to_source(objects, arm.held_object) IN
            IF is_full(zone_count, zid) /\ returned.ok
            THEN /\ objects' = returned.objs
                 /\ arm' = [arm EXCEPT !.held_object = None, !.state = "idle",
                                       !.target_position = NoPos]
                 /\ Return(OperationResult("place", FALSE, arm.held_object, "zone_full", 0))
            ELSE /\ arm' = [arm EXCEPT !.retry_count = 0]
                 /\ pc' = "place_loop"
                 /\ call' = [op |-> "place", object_id |-> arm.held_object, zone |-> zid,
                             max_retries |-> max_retries, after_place |-> AfterPlace, moves |-> 0]
                 /\ result' = NoResult
                 /\ UNCHANGED objects
    /\ route' = NoMove
    /\ cb' = <<>>
    /\ UNCHANGED <<next_id, zone_count, metrics>>

\* place_object, "while self._retry_count <= max_retries" and the code
\* after the loop
PlaceLoop ==
    /\ pc = "place_loop"
    /\ IF arm.retry_count <= call.max_retries
       THEN /\ arm' = [arm EXCEPT !.state = "moving",
                                  !.target_position = ZoneCenter(call.zone)]
            /\ Goto("place_move")
            /\ UNCHANGED objects
       ELSE LET returned == return_to_source(objects, call.object_id) IN
            /\ objects' = returned.objs
            /\ arm' = [arm EXCEPT !.held_object = IF returned.ok THEN None ELSE @,
                                  !.state = "idle", !.target_position = NoPos]
            /\ Return(OperationResult("place", FALSE, call.object_id,
                                      "max_retries_exceeded", arm.retry_count))
    /\ UNCHANGED <<next_id, zone_count, route, cb, metrics>>

\* place_object, the movement to the zone centre
PlaceMove ==
    /\ pc = "place_move"
    /\ \E m \in {move_to(arm, ZoneCenter(call.zone), objects, None)} :
        /\ arm' = m.arm
        /\ route' = m.route
        /\ Moved(IF m.result.success THEN "place_attempt" ELSE "place_collision")
    /\ UNCHANGED <<objects, next_id, zone_count, cb, metrics>>

\* place_object, "if not movement_result.success": the object goes back to
\* the source and the call returns Collision
PlaceCollision ==
    /\ pc = "place_collision"
    /\ LET returned == return_to_source(objects, call.object_id) IN
        /\ objects' = returned.objs
        /\ arm' = IF returned.ok
                  THEN [arm EXCEPT !.held_object = None, !.state = "idle",
                                   !.target_position = NoPos]
                  ELSE arm
    /\ Return(OperationResult("place", FALSE, call.object_id, "collision",
                              arm.retry_count))
    /\ UNCHANGED <<next_id, zone_count, route, cb, metrics>>

\* place_object without its post-check
PostCheck_Skipped(objs, id, zid) == id \in DOMAIN objs

\* the post-check of place_object: "obj and zone.bounds.contains(obj.position)"
PostCheck(objs, id, zid) ==
    id \in DOMAIN objs /\ Contains(Zone(zid).bounds, objs[id].position)

\* PlaceAttempt that counts the successful attempt as a retry
PlaceAttempt_CountsSuccess(place_failed) ==
    /\ pc = "place_attempt"
    /\ cb' = Append(cb, place_failed)
    /\ LET placed == IF place_failed
                     THEN [ok |-> FALSE, objs |-> objects, counts |-> zone_count]
                     ELSE place_in_zone(objects, zone_count, call.object_id, call.zone)
           count == arm.retry_count + 1
           returned == return_to_source(placed.objs, call.object_id)
       IN  /\ zone_count' = placed.counts
           /\ IF placed.ok /\ PostCheck(placed.objs, call.object_id, call.zone)
              THEN /\ objects' = placed.objs
                   /\ arm' = [arm EXCEPT !.held_object = None, !.state = "idle",
                                         !.target_position = NoPos]
                   /\ Return(OperationResult("place", TRUE, call.object_id, None,
                                             count))
              ELSE IF count > call.max_retries /\ returned.ok
              THEN /\ objects' = returned.objs
                   /\ arm' = [arm EXCEPT !.retry_count = count, !.held_object = None,
                                         !.state = "idle", !.target_position = NoPos]
                   /\ Return(OperationResult("place", FALSE, call.object_id,
                                             "max_retries_exceeded", count))
              ELSE /\ objects' = placed.objs
                   /\ arm' = [arm EXCEPT !.retry_count = count, !.state = "holding"]
                   /\ Goto("place_loop")
    /\ UNCHANGED <<next_id, route, metrics>>

\* place_object, one attempt: the callback, place_in_zone, the post-check,
\* the retry counter.  place_failed is what the callback returns (FALSE also
\* stands for a call without a callback).
PlaceAttempt(place_failed) ==
    /\ pc = "place_attempt"
    /\ cb' = Append(cb, place_failed)
    /\ LET placed == IF place_failed
                     THEN [ok |-> FALSE, objs |-> objects, counts |-> zone_count]
                     ELSE place_in_zone(objects, zone_count, call.object_id, call.zone)
           count == arm.retry_count + 1
           returned == return_to_source(placed.objs, call.object_id)
       IN  /\ zone_count' = placed.counts
           /\ IF placed.ok /\ PostCheck(placed.objs, call.object_id, call.zone)
              THEN /\ objects' = placed.objs
                   /\ arm' = [arm EXCEPT !.held_object = None, !.state = "idle",
                                         !.target_position = NoPos]
                   /\ Return(OperationResult("place", TRUE, call.object_id, None,
                                             arm.retry_count))
              ELSE IF count > call.max_retries /\ returned.ok
              THEN /\ objects' = returned.objs
                   /\ arm' = [arm EXCEPT !.retry_count = count, !.held_object = None,
                                         !.state = "idle", !.target_position = NoPos]
                   /\ Return(OperationResult("place", FALSE, call.object_id,
                                             "max_retries_exceeded", count))
              ELSE /\ objects' = placed.objs
                   /\ arm' = [arm EXCEPT !.retry_count = count, !.state = "holding"]
                   /\ Goto("place_loop")
    /\ UNCHANGED <<next_id, route, metrics>>

\* the registry's transitions called directly by a driver
RemoveFromSource(id) ==
    /\ pc = "ready"
    /\ objects' = remove_from_source(objects, id).objs
    /\ Return([NoResult EXCEPT !.kind = "remove_from_source",
                               !.success = remove_from_source(objects, id).ok])
    /\ UNCHANGED <<arm, next_id, zone_count, route, cb, metrics>>

PlaceInZone(id, zid) ==
    /\ pc = "ready"
    /\ LET placed == place_in_zone(objects, zone_count, id, zid) IN
        /\ objects' = placed.objs
        /\ zone_count' = placed.counts
        /\ Return([NoResult EXCEPT !.kind = "place_in_zone", !.success = placed.ok])
    /\ UNCHANGED <<arm, next_id, route, cb, metrics>>

ReturnToSource(id) ==
    /\ pc = "ready"
    /\ objects' = return_to_source(objects, id).objs
    /\ Return([NoResult EXCEPT !.kind = "return_to_source",
                               !.success = return_to_source(objects, id).ok])
    /\ UNCHANGED <<arm, next_id, zone_count, route, cb, metrics>>

----------------------------------------------------------------------------
(* Specifications *)

\* the arm's operations, driven over objects created by create_objects
ArmNext ==
    \/ \E specs \in SpecLists : CreateObjects(specs)
    \/ Reset
    \/ \E target \in MoveTargets, ignore \in IgnoreChoices : MoveTo(target, ignore)
    \/ \E id \in ObjectIds, m \in RetryChoices : PickCall(id, m)
    \/ PickLoop
    \/ PickMove
    \/ \E failed \in BOOLEAN : PickAttempt(failed)
    \/ \E z \in ZoneIds, m \in RetryChoices : PlaceCall(z, m)
    \/ PlaceLoop
    \/ PlaceMove
    \/ PlaceCollision
    \/ \E failed \in BOOLEAN : PlaceAttempt(failed)

Next == ArmNext

Spec == Init /\ [][Next]_vars

\* the registry after create_objects was called once with MaxObjects specs,
\* alternately without and with an initial position
CreatedObjects ==
    create_objects([id \in {} |-> [state |-> "in_source", position |-> <<0, 0>>]], 0,
                   [i \in 1..MaxObjects |-> IF i % 2 = 1 THEN NoPos ELSE Pos(5, 0)])

InitRegistry ==
    /\ arm = InitialArm
    /\ objects = CreatedObjects.objs
    /\ next_id = CreatedObjects.next_id
    /\ zone_count = [z \in ZoneIds |-> 0]
    /\ pc = "ready"
    /\ call = NoCall
    /\ result = NoResult
    /\ route = NoMove
    /\ cb = <<>>
    /\ metrics = InitialMetrics

\* the registry's transitions called directly by a driver, between the
\* arm's operations
RegistryNext ==
    \/ \E id \in ObjectIds : RemoveFromSource(id)
    \/ \E id \in ObjectIds, z \in ZoneIds : PlaceInZone(id, z)
    \/ \E id \in ObjectIds : ReturnToSource(id)
    \/ Reset
    \/ \E t \in MoveTargets, ig \in IgnoreChoices : MoveTo(t, ig)
    \/ \E id \in ObjectIds, m \in RetryChoices : PickCall(id, m)
    \/ PickLoop
    \/ PickMove
    \/ \E failed \in BOOLEAN : PickAttempt(failed)
    \/ \E z \in ZoneIds, m \in RetryChoices : PlaceCall(z, m)
    \/ PlaceLoop
    \/ PlaceMove
    \/ PlaceCollision
    \/ \E failed \in BOOLEAN : PlaceAttempt(failed)

SpecRegistry == InitRegistry /\ [][RegistryNext]_vars

\* targets move_to is driven to when the planner is exercised: the corners
\* and the centre of the source area's lower half and points beyond it
PlannerTargets == {Pos(0, 0), Pos(5, 5), Pos(10, 0), Pos(15, 5), Pos(20, 5)}

\* move_to driven over a registry whose objects a driver takes out of the
\* source and returns to it
PlannerNext ==
    \/ \E id \in ObjectIds : RemoveFromSource(id)
    \/ \E id \in ObjectIds : ReturnToSource(id)
    \/ \E t \in PlannerTargets, ig \in IgnoreChoices : MoveTo(t, ig)

SpecPlanner == InitRegistry /\ [][PlannerNext]_vars

\* targets at and just beyond the 0.5 buffer around the object at the source
\* centre, and one far from every object
NearTargets == {Pos(10, 0), <<550, 550>>, <<551, 550>>}

\* move_to driven to those targets, over the same registry
NearNext ==
    \/ \E id \in ObjectIds : RemoveFromSource(id)
    \/ \E id \in ObjectIds : ReturnToSource(id)
    \/ \E t \in NearTargets, ig \in IgnoreChoices : MoveTo(t, ig)

SpecNear == InitRegistry /\ [][NearNext]_vars

\* the initial positions a driver of the ObjectManager alone supplies: none,
\* one inside the source area and one outside it (create_objects takes the
\* position as it is given)
CreatePositions == {NoPos, Pos(5, 0), Pos(50, 50)}
CreateLists ==
    {<<p>> : p \in CreatePositions} \cup
    {<<p, q>> : <<p, q>> \in CreatePositions \X CreatePositions}

\* the ObjectManager's operations called by a driver, without the arm
ObjectsNext ==
    \/ \E specs \in CreateLists : CreateObjects(specs)
    \/ \E id \in ObjectIds : RemoveFromSource(id)
    \/ \E id \in ObjectIds, z \in ZoneIds : PlaceInZone(id, z)
    \/ \E id \in ObjectIds : ReturnToSource(id)

SpecObjects == Init /\ [][ObjectsNext]_vars

-----------------------------------------------------------------------------
(* Zone selection, object_manager.py *)

\* the longest zone list an ObjectManager is constructed with
MaxZoneList == 2

\* Color, Size, ObjectType (two values of each) and SortingCriteria, by value
Colors == {"red", "blue"}
Sizes == {"small", "large"}
ObjectTypes == {"type_a", "type_b"}
SortingCriterias == {"by_color", "by_size", "by_type"}

\* the attributes of an Object that get_target_zone may read
ObjectAttributes == [color : Colors, size : Sizes, type : ObjectTypes]

\* the values a zone is constructed to match
CriteriaValues == {"red", "blue", "small", "type_a"}

\* target_zones lists: the i-th zone has the id "zone_i"
ZoneNames == <<"zone_1", "zone_2", "zone_3">>
ZoneLists ==
    UNION {{[i \in 1..n |-> [id |-> ZoneNames[i], criteria_value |-> values[i]]] :
                values \in [1..n -> CriteriaValues]} : n \in 0..MaxZoneList}

\* "for zone in self.target_zones: if zone.criteria_value == criteria_value"
RECURSIVE FirstZoneMatching(_, _)
FirstZoneMatching(zones, criteria_value) ==
    IF zones = <<>> THEN None
    ELSE IF Head(zones).criteria_value = criteria_value THEN Head(zones).id
    ELSE FirstZoneMatching(Tail(zones), criteria_value)

\* get_target_zone that always matches on the colour
get_target_zone_ByColorOnly(zones, obj, criteria) ==
    IF criteria \in SortingCriterias THEN FirstZoneMatching(zones, obj.color) ELSE None

\* ObjectManager.get_target_zone: the id of the zone returned, None for None
get_target_zone(zones, obj, criteria) ==
    IF criteria = "by_color" THEN FirstZoneMatching(zones, obj.color)
    ELSE IF criteria = "by_size" THEN FirstZoneMatching(zones, obj.size)
    ELSE IF criteria = "by_type" THEN FirstZoneMatching(zones, obj.type)
    ELSE None

\* a driver calls get_target_zone on an ObjectManager constructed with the
\* zone list: the call frame holds the arguments
GetTargetZoneCall(zones, obj, criteria) ==
    /\ pc = "ready"
    /\ pc' = "get_target_zone"
    /\ call' = [op |-> "get_target_zone", zones |-> zones, obj |-> obj,
                criteria |-> criteria]
    /\ result' = NoResult
    /\ UNCHANGED <<arm, objects, next_id, zone_count, route, cb, metrics>>

\* get_target_zone returns
GetTargetZoneReturn ==
    /\ pc = "get_target_zone"
    /\ pc' = "ready"
    /\ result' = [kind |-> "get_target_zone",
                  zone |-> get_target_zone(call.zones, call.obj, call.criteria)]
    /\ call' = NoCall
    /\ UNCHANGED <<arm, objects, next_id, zone_count, route, cb, metrics>>

SortingNext ==
    \/ \E zones \in ZoneLists, obj \in ObjectAttributes,
          criteria \in SortingCriterias \cup {None} :
            GetTargetZoneCall(zones, obj, criteria)
    \/ GetTargetZoneReturn

SpecSorting == Init /\ [][SortingNext]_vars

-----------------------------------------------------------------------------
(* The metrics collector driven alone *)

\* the values time() returns, as opaque instants
Times == {"t1"}

\* the OperationRecords a driver hands to record_operation
OperationRecords ==
    {OperationRecord(t, s, e, c) :
        t \in {"pick", "place"}, s \in BOOLEAN,
        e \in {None, "missed_pick", "collision"},
        c \in {None, OptionalBool(TRUE), OptionalBool(FALSE)}}

\* a collector operation leaves the arm and the registry alone
MetricsOnly == UNCHANGED <<arm, objects, next_id, zone_count, pc, call, result, route, cb>>

RecordPick(success, missed) ==
    /\ Len(metrics.operation_history) < MaxRecords
    /\ metrics' = record_pick(metrics, success, missed)
    /\ MetricsOnly

RecordPlace(success, correct_zone, error) ==
    /\ Len(metrics.operation_history) < MaxRecords
    /\ metrics' = record_place(metrics, success, correct_zone, error)
    /\ MetricsOnly

RecordCollision ==
    /\ Len(metrics.operation_history) < MaxRecords
    /\ metrics' = record_collision(metrics)
    /\ MetricsOnly

RecordOperation(operation) ==
    /\ Len(metrics.operation_history) < MaxRecords
    /\ metrics' = record_operation(metrics, operation)
    /\ MetricsOnly

StartTiming(now) ==
    /\ metrics' = start_timing(metrics, now)
    /\ MetricsOnly

StopTiming(now) ==
    /\ metrics' = stop_timing(metrics, now)
    /\ MetricsOnly

\* save_to_history(calculate_metrics(...))
SaveToHistory(cycle_complete) ==
    /\ Len(metrics.metrics_history) < MaxReports
    /\ metrics' = save_to_history(metrics, calculate_metrics(metrics, 0, cycle_complete))
    /\ MetricsOnly

MetricsReset ==
    /\ metrics' = metrics_reset(metrics)
    /\ MetricsOnly

ClearHistory ==
    /\ metrics' = clear_history(metrics)
    /\ MetricsOnly

\* the recording operations, in any order
MetricsNext ==
    \/ \E success \in BOOLEAN, missed \in BOOLEAN : RecordPick(success, missed)
    \/ \E success \in BOOLEAN, correct_zone \in BOOLEAN, error \in {None, "collision"} :
          RecordPlace(success, correct_zone, error)
    \/ RecordCollision
    \/ \E operation \in OperationRecords : RecordOperation(operation)

SpecMetrics == Init /\ [][MetricsNext]_vars

\* recording, timing, saving reports and resetting, in any order
HistoryNext ==
    \/ \E success \in BOOLEAN, missed \in BOOLEAN : RecordPick(success, missed)
    \/ \E success \in BOOLEAN, correct_zone \in BOOLEAN : RecordPlace(success, correct_zone, None)
    \/ RecordCollision
    \/ \E now \in Times : StartTiming(now)
    \/ \E now \in Times : StopTiming(now)
    \/ SaveToHistory(TRUE)
    \/ MetricsReset
    \/ ClearHistory

SpecHistory == Init /\ [][HistoryNext]_vars

----------------------------------------------------------------------------
(* Claims *)

HeldObjects == {id \in DOMAIN objects : objects[id].state = "held"}

\* the callback returned FALSE every time it was evaluated
NeverFailed(values) == \A i \in 1..Len(values) : ~values[i]

\* C1: for every zone 0 <= current_count <= capacity, in every state
\* reachable by the registry's transitions and the arm's operations,
\* including place attempts whose post-check fails and are retried.
C1_CountWithinCapacity ==
    \A z \in ZoneIds : 0 <= zone_count[z] /\ zone_count[z] <= Zone(z).capacity

\* a place_object whose first attempt was admitted by the registry and
\* failed the post-check, was retried and gave up: the zone is at capacity
C1_Witness ==
    /\ pc = "ready"
    /\ result.kind = "place" /\ result.error = "max_retries_exceeded"
    /\ result.retry_count >= 2
    /\ objects[result.object_id].state = "in_zone"
    /\ \E z \in ZoneIds : zone_count[z] = Zone(z).capacity

\* C2 (as claimed): whenever place_object returns a failure, whatever the
\* error, the object the arm was holding is InSource and the arm is Idle
\* and holds nothing.
C2_FailedPlaceReturnsObject ==
    (pc = "ready" /\ result.kind = "place" /\ ~result.success) =>
        /\ arm.state = "idle"
        /\ arm.held_object = None
        /\ result.object_id # None => objects[result.object_id].state = "in_source"

\* C3 (as claimed): whenever pick_object returns a failure for an existing
\* object, whatever the error, that object is InSource.
C3_FailedPickObjectInSource ==
    (pc = "ready" /\ result.kind = "pick" /\ ~result.success
        /\ result.object_id \in DOMAIN objects) =>
        objects[result.object_id].state = "in_source"

\* C3 (amended): a pick_object that returns a failure for an existing
\* object leaves that object as it was; when the error is Collision or
\* MaxRetriesExceeded the object is InSource.
C3_FailedPickKeepsObject ==
    [][(pc' = "ready" /\ result'.kind = "pick" /\ ~result'.success
          /\ result'.object_id \in DOMAIN objects) =>
          /\ objects'[result'.object_id] = objects[result'.object_id]
          /\ result'.error \in {"collision", "max_retries_exceeded"} =>
                objects'[result'.object_id].state = "in_source"]_vars

\* a pick that exhausted its retries, its object still in the source
C3_Witness ==
    /\ pc = "ready"
    /\ result.kind = "pick" /\ result.error = "max_retries_exceeded"
    /\ result.retry_count >= 1
    /\ objects[result.object_id].state = "in_source"

\* C4: whenever place_object returns success, the placed object is InZone
\* and its position is inside the bounds of the zone passed to the call.
C4_PlacedInsideZone ==
    [][(call.op = "place" /\ pc' = "ready" /\ result'.kind = "place" /\ result'.success) =>
          /\ objects'[call.object_id].state = "in_zone"
          /\ Contains(Zone(call.zone).bounds, objects'[call.object_id].position)]_vars

\* a place that succeeded
C4_Witness ==
    /\ pc = "ready"
    /\ result.kind = "place" /\ result.success
    /\ objects[result.object_id].state = "in_zone"
    /\ \E z \in ZoneIds : /\ zone_count[z] = 1
                          /\ objects[result.object_id].position = ZoneCenter(z)
                          /\ Contains(Zone(z).bounds, ZoneCenter(z))

\* C5 (as claimed): after place_object succeeds, a following pick_object of
\* an InSource object, whose callback never fails, with no obstacle in the
\* field but the object just placed, succeeds.
C5_PickAfterPlaceSucceeds ==
    [][(call.op = "pick" /\ call.after_place /\ call.max_retries >= 0
          /\ pc' = "ready" /\ NeverFailed(cb')
          /\ Cardinality({id \in DOMAIN objects :
                            id # call.object_id /\ objects[id].state # "held"}) <= 1)
          => result'.success]_vars

\* C6 (as claimed): a second place_object into a zone of capacity >= 2 that
\* already received one object can succeed: with a callback that never
\* fails and nothing in the field but objects already placed, it does.
C6_SecondPlaceSucceeds ==
    [][(call.op = "place" /\ call.max_retries >= 0
          /\ Zone(call.zone).capacity >= 2 /\ zone_count[call.zone] = 1
          /\ pc' = "ready" /\ NeverFailed(cb')
          /\ \A id \in DOMAIN objects :
                id # call.object_id => objects[id].state = "in_zone")
          => result'.success]_vars

\* what the code does instead of C6: no sequence of pick_object,
\* place_object, move_to and reset brings a zone's count to 2
C6_ZoneNeverHoldsTwo == \A z \in ZoneIds : zone_count[z] < 2

\* C7 (as claimed): between operations at most one object is Held, and it
\* is the one the arm's held-object reference designates.
C7_OneHeldObject ==
    pc = "ready" =>
        /\ Cardinality(HeldObjects) <= 1
        /\ \A id \in HeldObjects : arm.held_object = id

\* C8: reset(), in whatever state it is called, leaves the arm Idle at
\* (0,0) with no held object, no target and retry counter 0.
C8_ResetRestoresInitialArm ==
    result.kind = "reset" =>
        /\ arm.state = "idle"
        /\ arm.position = <<0, 0>>
        /\ arm.held_object = None
        /\ arm.target_position = NoPos
        /\ arm.retry_count = 0

\* reset was called while the arm was holding an object
C8_Witness ==
    /\ result.kind = "reset"
    /\ HeldObjects # {}
    /\ arm.held_object = None

\* the direct segment to target is blocked and the planner finds no route
NoRoute(target, ignore) ==
    /\ check_collision(arm.position, target, objects, ignore)
    /\ ~find_alternative_path(arm.position, target, objects, ignore).found

\* the arm after a move_to that failed
MoveFailed ==
    /\ arm'.position = arm.position
    /\ arm'.state = "idle"
    /\ arm'.target_position = NoPos

\* C9: when move_to finds the direct segment blocked and the planner finds
\* no route, it returns success=false with error Collision, leaves the
\* position unchanged, sets the state to Idle and clears the target (as a
\* call of the driver and inside pick_object and place_object).
C9_BlockedMoveFails ==
    [][/\ (result'.kind = "move" /\ NoRoute(route'.target, route'.ignore)) =>
             /\ MoveFailed
             /\ ~result'.success /\ result'.error = "collision"
             /\ result'.final_position = arm.position
       /\ (pc = "pick_move" /\ NoRoute(objects[call.object_id].position, call.object_id)) =>
             MoveFailed
       /\ (pc = "place_move" /\ NoRoute(ZoneCenter(call.zone), None)) => MoveFailed]_vars

\* a move_to that failed while the arm was holding an object, away from
\* the origin
C9_Witness ==
    /\ pc = "ready"
    /\ result.kind = "move" /\ ~result.success /\ result.error = "collision"
    /\ arm.state = "idle" /\ arm.held_object # None
    /\ arm.position # <<0, 0>> /\ result.final_position = arm.position

\* every sub-segment of start -> waypoints -> target is collision-free
RouteClear(start, waypoints, target, ignore) ==
    \A i \in 1..(Len(waypoints) + 1) :
        ~check_collision((<<start>> \o waypoints)[i], (waypoints \o <<target>>)[i],
                         objects, ignore)

\* the arm after a move_to that succeeded
MoveSucceeded(target, ignore) ==
    /\ arm'.position = target
    /\ arm'.target_position = target
    /\ route'.target = target /\ route'.ignore = ignore
    /\ RouteClear(arm.position, route'.waypoints, target, ignore)

\* no object of the field can collide: all are Held or ignored
EmptyField(ignore) ==
    \A id \in DOMAIN objects : objects[id].state = "held" \/ id = ignore

\* C10: whenever move_to returns success, the arm's position and recorded
\* target equal the target and every sub-segment of the route taken is
\* collision-free for check_collision with the same ignore id; with an
\* empty field move_to always succeeds.
C10_MoveSucceedsOnClearRoute ==
    [][/\ (result'.kind = "move" /\ result'.success) =>
             /\ MoveSucceeded(route'.target, route'.ignore)
             /\ result'.final_position = route'.target
       /\ (result'.kind = "move" /\ EmptyField(route'.ignore)) => result'.success
       /\ (pc = "pick_move" /\ pc' = "pick_attempt") =>
             MoveSucceeded(objects[call.object_id].position, call.object_id)
       /\ (pc = "place_move" /\ pc' = "place_attempt") =>
             MoveSucceeded(ZoneCenter(call.zone), None)]_vars

\* a move_to that succeeded through two waypoints
C10_Witness ==
    /\ pc = "ready"
    /\ result.kind = "move" /\ result.success
    /\ Len(route.waypoints) = 2
    /\ arm.position = result.final_position

\* the callback returned TRUE every time it was evaluated
AlwaysFailed(values) == \A i \in 1..Len(values) : values[i]

\* C11 (as claimed): for every max_retries >= 0, a pick_object or
\* place_object call in which every attempt fails and no movement collides
\* returns MaxRetriesExceeded with retry_count = max_retries + 1 and leaves
\* the arm Idle with no held object.
C11_ExhaustedRetries ==
    [][(call.op \in {"pick", "place"} /\ call.max_retries >= 0
          /\ pc \in {"pick_attempt", "place_attempt"} /\ pc' = "ready"
          /\ AlwaysFailed(cb')) =>
          /\ result'.error = "max_retries_exceeded"
          /\ result'.retry_count = call.max_retries + 1
          /\ arm'.state = "idle"
          /\ arm'.held_object = None]_vars

\* what the code does keep of C11: the same, for a pick_object that starts
\* with the arm's held-object reference empty and for every place_object
C11_ExhaustedRetriesFromCleanArm ==
    [][(call.op \in {"pick", "place"} /\ call.max_retries >= 0
          /\ pc \in {"pick_attempt", "place_attempt"} /\ pc' = "ready"
          /\ AlwaysFailed(cb') /\ (call.op = "pick" => arm.held_object = None)) =>
          /\ result'.error = "max_retries_exceeded"
          /\ result'.retry_count = call.max_retries + 1
          /\ arm'.state = "idle"
          /\ arm'.held_object = None]_vars

\* C12 (as claimed): the retry_count of every result returned by
\* pick_object or place_object, and the arm's retry counter after the call,
\* never exceed the max_retries passed to that call.
C12_RetryCountAtMostMaxRetries ==
    [][(call.op \in {"pick", "place"} /\ call.max_retries >= 0 /\ pc' = "ready") =>
          /\ result'.retry_count <= call.max_retries
          /\ arm'.retry_count <= call.max_retries]_vars

\* C12 (amended): a call that passes its guards returns a retry_count of at
\* most max_retries + 1 (0 when max_retries is negative), which is also the
\* arm's retry counter after the call; the count is max_retries + 1 only
\* with MaxRetriesExceeded, a success or a Collision reports at most
\* max_retries; a call refused at entry reports 0.
C12_RetryCountAtMostMaxRetriesPlusOne ==
    [][/\ (call.op \in {"pick", "place"} /\ pc' = "ready") =>
             /\ 0 <= result'.retry_count
             /\ result'.retry_count <= Max2(call.max_retries + 1, 0)
             /\ arm'.retry_count = result'.retry_count
             /\ result'.error # "max_retries_exceeded" =>
                   result'.retry_count <= call.max_retries
       /\ (pc = "ready" /\ pc' = "ready" /\ result'.kind \in {"pick", "place"}) =>
             result'.retry_count = 0]_vars

\* a call with max_retries = MaxRetry gave up after MaxRetry + 1 attempts
C12_Witness ==
    /\ pc = "ready"
    /\ result.kind \in {"pick", "place"}
    /\ result.error = "max_retries_exceeded"
    /\ result.retry_count = MaxRetry + 1
    /\ arm.retry_count = MaxRetry + 1
    /\ Len(cb) = MaxRetry + 1

\* the callback returned TRUE on its first calls and FALSE on its last
FailedThenPassed(values) ==
    /\ Len(values) >= 1
    /\ ~values[Len(values)]
    /\ \A i \in 1..(Len(values) - 1) : values[i]

\* the outcome C13 claims for the attempt on which the callback first
\* returns FALSE, after k = Len(cb') - 1 failures
SucceedsAfterRetries ==
    /\ pc' = "ready"
    /\ result'.success
    /\ result'.retry_count = Len(cb') - 1
    /\ call.op = "pick" =>
          /\ arm'.state = "holding"
          /\ arm'.held_object = call.object_id
          /\ objects'[call.object_id].state = "held"
    /\ call.op = "place" =>
          /\ arm'.state = "idle"
          /\ arm'.held_object = None
          /\ zone_count' = [zone_count EXCEPT ![call.zone] = @ + 1]

\* C13 (as claimed): if the failure predicate returns true on exactly its
\* first k calls and false afterwards, with k <= max_retries and no
\* movement collision, pick_object and place_object succeed with
\* retry_count = k; pick ends Holding with the object held, place ends Idle
\* with the zone count incremented exactly once.
C13_SucceedsAfterRetries ==
    [][/\ (pc \in {"pick_attempt", "place_attempt"} /\ FailedThenPassed(cb')
             /\ Len(cb') - 1 <= call.max_retries) => SucceedsAfterRetries
       /\ (call.op = "place" /\ ~(pc = "place_attempt" /\ FailedThenPassed(cb'))
             /\ AlwaysFailed(cb')) => zone_count' = zone_count]_vars

\* C13 (amended): the same, for pick_object and for a place_object into a
\* zone whose bounds contain the zone's centre (min <= max on both axes).
C13_SucceedsAfterRetriesInProperZone ==
    [][/\ (pc \in {"pick_attempt", "place_attempt"} /\ FailedThenPassed(cb')
             /\ Len(cb') - 1 <= call.max_retries
             /\ (call.op = "place" =>
                    Contains(Zone(call.zone).bounds, ZoneCenter(call.zone))))
             => SucceedsAfterRetries
       /\ (call.op = "place" /\ ~(pc = "place_attempt" /\ FailedThenPassed(cb'))
             /\ AlwaysFailed(cb')) => zone_count' = zone_count]_vars

\* a place that succeeded on the attempt after a failed one
C13_Witness ==
    /\ pc = "ready"
    /\ result.kind = "place" /\ result.success /\ result.retry_count = 1
    /\ cb = <<TRUE, FALSE>>
    /\ arm.state = "idle"
    /\ \E z \in ZoneIds : zone_count[z] = 1

\* a guard of pick_object fails
PickRefused(id) ==
    \/ arm.state # "idle"
    \/ id \notin DOMAIN objects
    \/ objects[id].state # "in_source"

\* the error of a refused pick: the arm's state is tested first, then the
\* existence of the object, then its state
PickRefusal(id) ==
    IF arm.state # "idle" THEN "invalid_state"
    ELSE IF id \notin DOMAIN objects THEN "object_not_found"
    ELSE "invalid_state"

\* a guard of place_object fails
PlaceRefused == arm.state # "holding" \/ arm.held_object = None

\* the call returned at once and changed nothing
RefusedWith(kind, error) ==
    /\ pc' = "ready"
    /\ result'.kind = kind /\ ~result'.success
    /\ result'.error = error /\ result'.retry_count = 0
    /\ arm' = arm
    /\ objects' = objects
    /\ zone_count' = zone_count
    /\ next_id' = next_id

\* C14: guard failures return at once and change nothing: pick_object with
\* the arm not Idle or the object not InSource returns InvalidState, with
\* an Idle arm and an unknown id ObjectNotFound; place_object with the arm
\* not Holding or holding nothing returns InvalidState; retry_count is 0
\* and the arm and every object and zone of the registry are unchanged.
C14_GuardFailuresChangeNothing ==
    [][/\ \A id \in ObjectIds, m \in RetryChoices :
             (pc = "ready" /\ PickRefused(id) /\ PickCall(id, m)) =>
                 RefusedWith("pick", PickRefusal(id))
       /\ \A z \in ZoneIds, m \in RetryChoices :
             (pc = "ready" /\ PlaceRefused /\ PlaceCall(z, m)) =>
                 RefusedWith("place", "invalid_state")]_vars

\* a pick of an unknown id was refused after an earlier call had used up
\* its retries: the arm's counter is still that call's
C14_Witness ==
    /\ pc = "ready"
    /\ result.kind = "pick" /\ result.error = "object_not_found"
    /\ result.retry_count = 0
    /\ arm.state = "idle" /\ arm.retry_count >= 1
    /\ arm.position # <<0, 0>>

\* C15: place_object called while Holding with a zone that is full returns
\* ZoneFull with retry_count 0 without entering the retry loop: no movement
\* is attempted (the position is unchanged), the failure predicate is not
\* evaluated, the zone's count is unchanged, the object ends InSource and
\* the arm ends Idle holding nothing.
C15_FullZoneRefusedAtOnce ==
    [][\A z \in ZoneIds, m \in RetryChoices :
          (pc = "ready" /\ ~PlaceRefused /\ is_full(zone_count, z) /\ PlaceCall(z, m)) =>
              /\ pc' = "ready"
              /\ result'.kind = "place" /\ ~result'.success
              /\ result'.error = "zone_full" /\ result'.retry_count = 0
              /\ result'.object_id = arm.held_object
              /\ arm'.position = arm.position
              /\ route' = NoMove
              /\ cb' = <<>>
              /\ zone_count' = zone_count
              /\ objects'[arm.held_object].state = "in_source"
              /\ arm'.state = "idle"
              /\ arm'.held_object = None]_vars

\* a place into a full zone was refused, away from the zone and from the
\* source centre the object went back to
C15_Witness ==
    /\ pc = "ready"
    /\ result.kind = "place" /\ result.error = "zone_full"
    /\ \E z \in ZoneIds : is_full(zone_count, z)
    /\ objects[result.object_id].state = "in_source"
    /\ arm.state = "idle" /\ arm.held_object = None
    /\ arm.position # objects[result.object_id].position

C16_IdleWhileHeldOnlyAfterFailedMove ==
    (call.op = "place" /\ arm.state = "idle" /\ objects[call.object_id].state = "held")
        => pc = "place_collision"

\* a step of pick_object in which the movement to the object found no route
PickMovementFailed ==
    /\ pc = "pick_move" /\ pc' = "ready"

\* what C17 and the code agree on for a failed movement of pick_object
PickAbortsOnFailedMovement ==
    /\ result'.kind = "pick" /\ ~result'.success
    /\ result'.error = "collision"
    /\ result'.object_id = call.object_id
    /\ result'.retry_count = arm.retry_count
    /\ cb' = cb
    /\ Len(cb) = arm.retry_count
    /\ arm'.retry_count = arm.retry_count
    /\ arm'.state = "idle"
    /\ arm'.position = arm.position
    /\ objects' = objects
    /\ objects[call.object_id].state = "in_source"

\* C17 (as claimed): when a movement of pick_object fails, the pick aborts
\* at once: the failure predicate is not evaluated after the failed movement,
\* the result is Collision with the current retry counter, the arm ends Idle
\* holding nothing at its position before that movement, and the object
\* stays InSource.
C17_FailedPickMovementAborts ==
    [][PickMovementFailed =>
          (PickAbortsOnFailedMovement /\ arm'.held_object = None)]_vars

\* what the code does keep of C17: everything but "holding nothing", which
\* holds when the arm held nothing as the pick began
C17_FailedPickMovementAbortsKeepingHeld ==
    [][PickMovementFailed =>
          (PickAbortsOnFailedMovement /\ arm'.held_object = arm.held_object)]_vars

\* a pick_object or place_object call is running
InCall == pc # "ready"

\* a step of the running call
InCallStep == InCall /\ Next

\* the number of attempts max_retries allows: "while retry_count <= max_retries"
\* from retry_count = 0
AllowedAttempts(max_retries) == Max2(max_retries + 1, 0)

\* the movements the running call has attempted once the step is taken
MovesAfterStep ==
    call.moves + (IF pc \in {"pick_move", "place_move"} THEN 1 ELSE 0)

\* the position of the running call in one round of its loop, counted down
StepsLeftInRound ==
    CASE pc \in {"pick_loop", "place_loop"} -> 3
      [] pc \in {"pick_move", "place_move"} -> 2
      [] pc \in {"pick_attempt", "place_attempt", "place_collision"} -> 1
      [] OTHER -> 0

\* a bound on the steps the running call still takes
StepsLeft ==
    4 * (AllowedAttempts(call.max_retries) - arm.retry_count) + StepsLeftInRound

\* C18 (as claimed): every pick_object and place_object call evaluates the
\* failure predicate and attempts a movement at most max_retries + 1 times,
\* for every max_retries, negative values included.
C18_AtMostMaxRetriesPlusOneAttempts ==
    [][InCall =>
          /\ Len(cb') <= call.max_retries + 1
          /\ MovesAfterStep <= call.max_retries + 1]_vars

\* C18 (amended): every pick_object and place_object call terminates (it can
\* always take a step, and every step either returns or decreases StepsLeft,
\* which is never negative), and it evaluates the failure predicate and
\* attempts a movement at most max(max_retries + 1, 0) times, for every
\* max_retries and every predicate behaviour.
C18_TerminatesWithinAllowedAttempts ==
    /\ [](InCall => (StepsLeft >= 0 /\ ENABLED InCallStep))
    /\ [][InCall =>
             /\ pc' = "ready" \/ (InCall' /\ StepsLeft' < StepsLeft)
             /\ Len(cb') <= AllowedAttempts(call.max_retries)
             /\ MovesAfterStep <= AllowedAttempts(call.max_retries)]_vars

\* a place_object with max_retries = MaxRetry used every attempt: MaxRetry + 1
\* movements and MaxRetry + 1 evaluations of the predicate, all failed
C18_Witness ==
    /\ pc = "place_loop" /\ call.max_retries = MaxRetry
    /\ call.moves = MaxRetry + 1 /\ Len(cb) = MaxRetry + 1
    /\ arm.retry_count = MaxRetry + 1

\* start and end points check_collision is asked about: points of the
\* workspace, and points 0.5 and 0.51 away from the default source position
CollisionPoints ==
    {Pos(0, 0), Pos(10, 0), Pos(25, 25), <<550, 550>>, <<551, 550>>, <<800, 300>>}

\* ignore_object_id: none, or any id
CollisionIgnores == {None} \cup ObjectIds

\* the point is between a and b moved 0.5 outwards, on one axis, ends included
BetweenExpanded(a, b, x) ==
    \/ a <= b /\ a - 50 <= x /\ x <= b + 50
    \/ b <= a /\ b - 50 <= x /\ x <= a + 50

\* the position is inside the axis-aligned box enclosing start and end
\* expanded by 0.5 on every side, boundaries included
InExpandedBox(position, start, end) ==
    /\ BetweenExpanded(start[1], end[1], position[1])
    /\ BetweenExpanded(start[2], end[2], position[2])

\* the position is on the boundary of that box
OnExpandedBoundary(position, start, end) ==
    /\ InExpandedBox(position, start, end)
    /\ \E i \in 1..2 : position[i] \in {start[i] - 50, start[i] + 50, end[i] - 50, end[i] + 50}

\* the object can cause a collision: not Held and not the ignored one
Obstructs(id, ignore_id) ==
    objects[id].state # "held" /\ (ignore_id = None \/ id # ignore_id)

\* C19: check_collision(start, end, registry, ignore_id) is true if and only
\* if some object of the registry is not Held, is not the ignored object and
\* has its position inside the box enclosing start and end expanded by 0.5
\* on every side, boundaries included; Held objects and the ignored object
\* never cause a collision.
C19_CheckCollisionIffObjectInExpandedBox ==
    \A start \in CollisionPoints, end \in CollisionPoints, ignore_id \in CollisionIgnores :
        check_collision(start, end, objects, ignore_id)
            <=> \E id \in DOMAIN objects :
                    Obstructs(id, ignore_id) /\ InExpandedBox(objects[id].position, start, end)

\* a registry where a Held object lies inside a box that is reported clear,
\* an object on the boundary of a box collides, is no collision when it is
\* the ignored one, and is clear of the box that starts 0.01 further away
C19_Witness ==
    /\ \E id \in DOMAIN objects :
        /\ objects[id].state = "held"
        /\ InExpandedBox(objects[id].position, Pos(0, 0), Pos(10, 0))
        /\ ~check_collision(Pos(0, 0), Pos(10, 0), objects, None)
    /\ \E id \in DOMAIN objects :
        /\ objects[id].state = "in_source"
        /\ OnExpandedBoundary(objects[id].position, <<550, 550>>, <<800, 300>>)
        /\ check_collision(<<550, 550>>, <<800, 300>>, objects, None)
        /\ ~check_collision(<<550, 550>>, <<800, 300>>, objects, id)
        /\ ~check_collision(<<551, 550>>, <<800, 300>>, objects, None)

\* the order C20 names: offsets, sides and fractions (in hundredths)
OffsetOrder == <<2, 3, 4, 5, 6, 8>>
SideOrder == <<1, -1>>
FractionOrder == <<20, 33, 50, 67, 80>>

\* the places of the candidates in that order
CandidatePlaces == (1..Len(OffsetOrder)) \X (1..Len(SideOrder)) \X (1..Len(FractionOrder))

\* place p comes before place q: offset first, then side, then fraction
Earlier(p, q) ==
    \/ p[1] < q[1]
    \/ p[1] = q[1] /\ p[2] < q[2]
    \/ p[1] = q[1] /\ p[2] = q[2] /\ p[3] < q[3]

\* the candidate waypoint at a place
CandidateAt(start, end, p) ==
    Waypoint(start, end[1] - start[1], end[2] - start[2],
             Distance(end[1] - start[1], end[2] - start[2]),
             FractionOrder[p[3]], SideOrder[p[2]], OffsetOrder[p[1]])

\* both sub-segments start -> waypoint -> end are collision-free
BothSegmentsClear(start, end, ignore, wp) ==
    /\ ~check_collision(start, wp, objects, ignore)
    /\ ~check_collision(wp, end, objects, ignore)

\* the waypoint is the first candidate in the order with both sub-segments clear
FirstClearCandidate(start, end, ignore, wp) ==
    \E p \in CandidatePlaces :
        /\ wp = CandidateAt(start, end, p)
        /\ BothSegmentsClear(start, end, ignore, wp)
        /\ \A q \in CandidatePlaces :
              Earlier(q, p) => ~BothSegmentsClear(start, end, ignore, CandidateAt(start, end, q))

\* a step in which move_to ran: the public operation, or the movement of a
\* pick_object or place_object
MoveToRan ==
    \/ pc = "ready" /\ result'.kind = "move"
    \/ pc \in {"pick_move", "place_move"}

\* C20: when the planner returns a single waypoint, it is the first
\* candidate, in the order offset ascending over [2,3,4,5,6,8], then side +1
\* before -1, then fraction ascending over [0.2,0.33,0.5,0.67,0.8], for which
\* both sub-segments are collision-free: no earlier candidate has both clear.
C20_SingleWaypointIsFirstClearCandidate ==
    [][(MoveToRan /\ Len(route'.waypoints) = 1) =>
          FirstClearCandidate(arm.position, route'.target, route'.ignore,
                              route'.waypoints[1])]_vars

\* pick_object has just moved the arm from Pos(10, 0) to the object through
\* a single waypoint, which is the first clear candidate but not the first
\* candidate of the order
C20_Witness ==
    /\ pc = "pick_attempt" /\ Len(route.waypoints) = 1
    /\ arm.position = route.target
    /\ FirstClearCandidate(Pos(10, 0), route.target, route.ignore, route.waypoints[1])
    /\ route.waypoints[1] # CandidateAt(Pos(10, 0), route.target, <<1, 1, 1>>)

\* the places of the two-waypoint candidates: offset, then side
PairPlaces == (1..Len(OffsetOrder)) \X (1..Len(SideOrder))

\* pair place p comes before pair place q
EarlierPair(p, q) ==
    \/ p[1] < q[1]
    \/ p[1] = q[1] /\ p[2] < q[2]

\* the two waypoints at a pair place: fractions 0.3 and 0.7 on the same
\* perpendicular offset
PairAt(start, end, p) ==
    <<Waypoint(start, end[1] - start[1], end[2] - start[2],
               Distance(end[1] - start[1], end[2] - start[2]),
               30, SideOrder[p[2]], OffsetOrder[p[1]]),
      Waypoint(start, end[1] - start[1], end[2] - start[2],
               Distance(end[1] - start[1], end[2] - start[2]),
               70, SideOrder[p[2]], OffsetOrder[p[1]])>>

\* the three sub-segments start -> first -> second -> end are collision-free
ThreeSegmentsClear(start, end, ignore, wps) ==
    /\ ~check_collision(start, wps[1], objects, ignore)
    /\ ~check_collision(wps[1], wps[2], objects, ignore)
    /\ ~check_collision(wps[2], end, objects, ignore)

\* some single-waypoint candidate has both sub-segments clear
SomeSingleClear(start, end, ignore) ==
    \E p \in CandidatePlaces :
        BothSegmentsClear(start, end, ignore, CandidateAt(start, end, p))

\* some pair has its three sub-segments clear
SomePairClear(start, end, ignore) ==
    \E p \in PairPlaces : ThreeSegmentsClear(start, end, ignore, PairAt(start, end, p))

\* the waypoints are the first pair in the order with three clear sub-segments
FirstClearPair(start, end, ignore, wps) ==
    \E p \in PairPlaces :
        /\ wps = PairAt(start, end, p)
        /\ ThreeSegmentsClear(start, end, ignore, wps)
        /\ \A q \in PairPlaces :
              EarlierPair(q, p) => ~ThreeSegmentsClear(start, end, ignore, PairAt(start, end, q))

\* the move_to of this step failed
MoveToFailed ==
    \/ pc = "ready" /\ result'.kind = "move" /\ ~result'.success
    \/ pc = "pick_move" /\ pc' = "ready"
    \/ pc = "place_move" /\ pc' = "place_collision"

\* the planner was asked for a route and searched: the direct segment is
\* blocked and start and end are apart
PlannerSearched(start, end, ignore) ==
    /\ check_collision(start, end, objects, ignore)
    /\ start # end

\* C21: the planner returns a two-waypoint route only when no single-waypoint
\* candidate is clear; the pair returned (fractions 0.3 and 0.7, same
\* perpendicular offset) is the first, in offset-ascending then side +1
\* before -1 order, with all three sub-segments collision-free; if no pair
\* qualifies either, the planner reports failure and move_to fails.
C21_TwoWaypointsOnlyAfterSingles ==
    [][MoveToRan =>
          /\ Len(route'.waypoints) = 2 =>
                /\ ~SomeSingleClear(arm.position, route'.target, route'.ignore)
                /\ FirstClearPair(arm.position, route'.target, route'.ignore, route'.waypoints)
          /\ (/\ PlannerSearched(arm.position, route'.target, route'.ignore)
              /\ ~SomeSingleClear(arm.position, route'.target, route'.ignore)
              /\ ~SomePairClear(arm.position, route'.target, route'.ignore))
                => (MoveToFailed /\ route'.waypoints = <<>>)]_vars

\* move_to went from Pos(0, 0) through two waypoints: no single-waypoint
\* candidate was clear, and the pair is the first clear one but not the
\* first of the order
C21_Witness ==
    /\ pc = "ready" /\ result.kind = "move" /\ result.success
    /\ Len(route.waypoints) = 2
    /\ ~SomeSingleClear(Pos(0, 0), route.target, route.ignore)
    /\ FirstClearPair(Pos(0, 0), route.target, route.ignore, route.waypoints)
    /\ route.waypoints # PairAt(Pos(0, 0), route.target, <<1, 1>>)

\* some object that is neither Held nor ignored lies in the buffer box
\* around the position
ObstructedAt(position, ignore_id) ==
    \E id \in DOMAIN objects :
        Obstructs(id, ignore_id) /\ InExpandedBox(objects[id].position, position, position)

\* C22: when start and end are closer than the epsilon the planner returns
\* no path, so a move_to towards the arm's own position fails with
\* Collision, leaving the arm Idle where it is and with no target, whenever
\* an object that is neither Held nor ignored lies in the buffer box around
\* that position.
C22_MoveToOwnPositionFailsWhenObstructed ==
    [][(/\ MoveToRan
        /\ route'.target = arm.position
        /\ ObstructedAt(arm.position, route'.ignore)) =>
            /\ MoveToFailed
            /\ route'.waypoints = <<>>
            /\ arm'.position = arm.position
            /\ arm'.state = "idle" /\ arm'.target_position = NoPos
            /\ pc = "ready" =>
                  /\ result'.error = "collision"
                  /\ result'.final_position = arm.position]_vars

\* move_to towards the arm's own position has just failed with Collision
\* because an object lies in the buffer box around it
C22_Witness ==
    /\ pc = "ready" /\ result.kind = "move" /\ ~result.success
    /\ result.error = "collision" /\ result.final_position = arm.position
    /\ route.target = arm.position
    /\ ObstructedAt(arm.position, route.ignore)

\* a second run of move_to from the same position: an arm that shares
\* nothing with the first run's arm but its position
SecondRun(position, target, objs, ignore) ==
    move_to([InitialArm EXCEPT !.position = position], target, objs, ignore)

\* the registry with its objects' positions and states dealt out to the
\* ids in another order, and the id the ignored object then has
Renamed(objs, perm) == [id \in DOMAIN objs |-> objs[perm[id]]]
RenamedIgnore(objs, perm, ignore) ==
    IF ignore \in DOMAIN objs THEN CHOOSE id \in DOMAIN objs : perm[id] = ignore ELSE ignore

\* the step's movement ended as the run r of move_to did
SameOutcome(r) ==
    /\ route'.waypoints = r.route.waypoints
    /\ arm'.position = r.arm.position
    /\ MoveToFailed <=> ~r.result.success
    /\ pc = "ready" =>
          /\ result'.success = r.result.success
          /\ result'.error = r.result.error
          /\ result'.final_position = r.result.final_position

C24_PositionConsistentWithState ==
    \A id \in DOMAIN objects :
        /\ objects[id].state = "in_source" =>
              Contains(source_area.bounds, objects[id].position)
        /\ objects[id].state = "in_zone" =>
              \E z \in ZoneIds : Contains(Zone(z).bounds, objects[id].position)

\* C25 (as claimed): after any pick_object or place_object call returns,
\* including one that returns InvalidState, ObjectNotFound or ZoneFull, the
\* arm's retry_count equals the retry_count of the returned result.
C25_RetryCountMatchesResult ==
    (pc = "ready" /\ result.kind \in {"pick", "place"}) =>
        arm.retry_count = result.retry_count

\* what the code does keep of C25: the counters agree after every call that
\* got past its guards and the zone-full pre-check
C25_RetryCountMatchesResultPastGuards ==
    [][(pc \notin {"ready"} /\ pc' = "ready") =>
          arm'.retry_count = result'.retry_count]_vars

\* a step in which place_object returns success
PlaceSucceeds ==
    /\ call.op = "place" /\ pc' = "ready"
    /\ result'.kind = "place" /\ result'.success

\* C26: a successful place_object increments the target zone's current_count
\* by exactly 1, leaves every other zone's count unchanged, leaves the arm
\* Idle with no held object and no target, and leaves the arm positioned at
\* the zone's centre ((min + max) / 2).
C26_SuccessfulPlaceFrame ==
    [][PlaceSucceeds =>
          /\ zone_count'[call.zone] = zone_count[call.zone] + 1
          /\ \A z \in ZoneIds \ {call.zone} : zone_count'[z] = zone_count[z]
          /\ arm'.state = "idle"
          /\ arm'.held_object = None
          /\ arm'.target_position = NoPos
          /\ arm'.position =
                <<(Zone(call.zone).bounds.min[1] + Zone(call.zone).bounds.max[1]) \div 2,
                  (Zone(call.zone).bounds.min[2] + Zone(call.zone).bounds.max[2]) \div 2>>]_vars

\* place_object has just succeeded: the zone holds one object more and the
\* arm is Idle at the zone's centre
C26_Witness ==
    /\ pc = "ready" /\ result.kind = "place" /\ result.success
    /\ \E z \in ZoneIds :
          /\ zone_count[z] = 1
          /\ arm.position = ZoneCenter(z)
          /\ objects[result.object_id].state = "in_zone"
          /\ objects[result.object_id].position = ZoneCenter(z)

\* place_in_zone(id, zone) may succeed: the object exists, is Held and the
\* zone is not full
CanPlaceInZone(id, z) ==
    /\ id \in DOMAIN objects
    /\ objects[id].state = "held"
    /\ zone_count[z] < Zone(z).capacity

\* C27: place_in_zone(id, zone) succeeds only when the object exists, is
\* Held and the zone is not full (and then it does); on success it
\* increments the zone count by 1, sets the object InZone and moves it to the
\* zone's centre, changing no other object or zone; on failure it returns
\* false and changes neither the objects nor the zones.
C27_PlaceInZoneContract ==
    [][\A id \in ObjectIds, z \in ZoneIds :
          PlaceInZone(id, z) =>
              /\ result'.success <=> CanPlaceInZone(id, z)
              /\ result'.success =>
                    /\ zone_count' = [zone_count EXCEPT ![z] = zone_count[z] + 1]
                    /\ objects'[id].state = "in_zone"
                    /\ objects'[id].position = ZoneCenter(z)
                    /\ DOMAIN objects' = DOMAIN objects
                    /\ \A other \in DOMAIN objects \ {id} : objects'[other] = objects[other]
              /\ ~result'.success =>
                    /\ objects' = objects
                    /\ zone_count' = zone_count]_vars

\* place_in_zone has just been refused for a Held object because the zone
\* is full
C27_Witness ==
    /\ pc = "ready" /\ result.kind = "place_in_zone" /\ ~result.success
    /\ \E z \in ZoneIds :
          /\ zone_count[z] = Zone(z).capacity
          /\ \E placed \in DOMAIN objects :
                objects[placed].state = "in_zone" /\ objects[placed].position = ZoneCenter(z)
    /\ \E id \in DOMAIN objects : objects[id].state = "held"

\* C28: remove_from_source(id) turns an InSource object into Held, where it
\* is, and returns true; for a missing object or an object that is not
\* InSource it returns false and mutates nothing, so a second
\* remove_from_source of the same object without an intervening
\* return_to_source fails.  It never changes a zone's count.
C28_RemoveFromSourceContract ==
    [][\A id \in ObjectIds :
          RemoveFromSource(id) =>
              /\ result'.success <=> (id \in DOMAIN objects /\ objects[id].state = "in_source")
              /\ result'.success =>
                    /\ objects'[id].state = "held"
                    /\ objects'[id].position = objects[id].position
                    /\ DOMAIN objects' = DOMAIN objects
                    /\ \A other \in DOMAIN objects \ {id} : objects'[other] = objects[other]
              /\ ~result'.success => objects' = objects
              /\ (id \in DOMAIN objects /\ objects[id].state = "held") => ~result'.success
              /\ zone_count' = zone_count]_vars

\* remove_from_source has just failed while every object of the registry is
\* already Held: a second removal
C28_Witness ==
    /\ pc = "ready" /\ result.kind = "remove_from_source" /\ ~result.success
    /\ DOMAIN objects = {ObjId(n) : n \in 0..(MaxObjects - 1)}
    /\ \A id \in DOMAIN objects : objects[id].state = "held"

\* C29: return_to_source(id) succeeds only for an existing Held object (and
\* then it does), setting it InSource at the source area's centre; for a
\* missing object or one that is not Held it returns false and mutates
\* nothing; it never changes any zone's count.
C29_ReturnToSourceContract ==
    [][\A id \in ObjectIds :
          ReturnToSource(id) =>
              /\ result'.success <=> (id \in DOMAIN objects /\ objects[id].state = "held")
              /\ result'.success =>
                    /\ objects'[id].state = "in_source"
                    /\ objects'[id].position =
                          <<(source_area.bounds.min[1] + source_area.bounds.max[1]) \div 2,
                            (source_area.bounds.min[2] + source_area.bounds.max[2]) \div 2>>
                    /\ DOMAIN objects' = DOMAIN objects
                    /\ \A other \in DOMAIN objects \ {id} : objects'[other] = objects[other]
              /\ ~result'.success => objects' = objects
              /\ zone_count' = zone_count]_vars

\* return_to_source has just succeeded: the registry's only object is back
\* InSource at the source area's centre
C29_Witness ==
    /\ pc = "ready" /\ result.kind = "return_to_source" /\ result.success
    /\ next_id = 1
    /\ objects[ObjId(0)].state = "in_source"
    /\ objects[ObjId(0)].position = Pos(5, 5)

\* the number n in the identity "obj_n"
IdNumber(id) == CHOOSE n \in 0..(Len(IdNames) - 1) : IdNames[n + 1] = id

\* the position create_objects gives an object: the supplied one or, when
\* none is supplied, the source area's centre
ExpectedPosition(spec) ==
    IF spec = NoPos
    THEN <<(source_area.bounds.min[1] + source_area.bounds.max[1]) \div 2,
           (source_area.bounds.min[2] + source_area.bounds.max[2]) \div 2>>
    ELSE spec

\* C30: create_objects gives every object an identity that is unique within
\* the registry and strictly increasing (by its number) in creation order
\* across all calls, never reused, state InSource, and the supplied initial
\* position or, when none is supplied, the source area's centre; the objects
\* already in the registry are left as they are.
C30_CreateObjectsContract ==
    [][\A specs \in CreateLists \cup SpecLists :
          CreateObjects(specs) =>
              \E ids \in {create_objects(objects, next_id, specs).created_ids} :
                  /\ Len(ids) = Len(specs)
                  /\ \A i \in 1..Len(ids) :
                        /\ ids[i] \notin DOMAIN objects
                        /\ ids[i] \in DOMAIN objects'
                        /\ \A old \in DOMAIN objects : IdNumber(old) < IdNumber(ids[i])
                        /\ \A j \in 1..Len(ids) : i < j => IdNumber(ids[i]) < IdNumber(ids[j])
                        /\ objects'[ids[i]].state = "in_source"
                        /\ objects'[ids[i]].position = ExpectedPosition(specs[i])
                  /\ DOMAIN objects' = DOMAIN objects \cup {ids[i] : i \in 1..Len(ids)}
                  /\ Cardinality(DOMAIN objects') = Cardinality(DOMAIN objects) + Len(specs)
                  /\ \A old \in DOMAIN objects : objects'[old] = objects[old]]_vars

\* create_objects has just run: the registry holds an object created
\* without a position, at the source centre, and after it one created at
\* the supplied position
C30_Witness ==
    /\ pc = "ready" /\ result.kind = "create"
    /\ next_id = 2
    /\ DOMAIN objects = {ObjId(0), ObjId(1)}
    /\ objects[ObjId(0)].position = Pos(5, 5)
    /\ objects[ObjId(1)].position = Pos(50, 50)
    /\ objects[ObjId(1)].state = "in_source"

\* the object's attribute the criteria selects
SelectedAttribute(obj, criteria) ==
    CASE criteria = "by_color" -> obj.color
      [] criteria = "by_size" -> obj.size
      [] criteria = "by_type" -> obj.type

\* the places in the list of the zones whose match value is the value
MatchingPlaces(zones, value) == {i \in 1..Len(zones) : zones[i].criteria_value = value}

\* C31: get_target_zone(object, criteria) returns the first zone, in registry
\* list order, whose match value equals the object's attribute selected by
\* criteria (color, size or type), or none when no zone matches; the
\* object's two other attributes never influence the result.
C31_FirstZoneMatchingSelectedAttribute ==
    [][(pc = "get_target_zone" /\ call.criteria \in SortingCriterias) =>
          \E value \in {SelectedAttribute(call.obj, call.criteria)} :
              /\ IF MatchingPlaces(call.zones, value) = {}
                 THEN result'.zone = None
                 ELSE \E i \in MatchingPlaces(call.zones, value) :
                          /\ result'.zone = call.zones[i].id
                          /\ \A j \in MatchingPlaces(call.zones, value) : i <= j
              /\ \A other \in ObjectAttributes :
                    SelectedAttribute(other, call.criteria) = value =>
                        get_target_zone(call.zones, other, call.criteria) = result'.zone]_vars

\* get_target_zone has just returned the second zone of the list
C31_Witness ==
    /\ pc = "ready" /\ result.kind = "get_target_zone"
    /\ result.zone = ZoneNames[2]

\* the state changes of an object the registry has
RegistryTransitions ==
    {<<"in_source", "held">>, <<"held", "in_zone">>, <<"held", "in_source">>}

\* C32: object states and zone counts change only through the registry
\* transitions InSource->Held, Held->InZone and Held->InSource: under any
\* sequence of registry and arm operations no object disappears, an object
\* that reached InZone never leaves it (nor moves), no zone's current_count
\* ever decreases, and a count grows only by 1 and only as an object goes
\* from Held to InZone in that zone.
C32_OnlyRegistryTransitions ==
    [][/\ \A id \in DOMAIN objects :
            /\ id \in DOMAIN objects'
            /\ objects'[id].state # objects[id].state =>
                  <<objects[id].state, objects'[id].state>> \in RegistryTransitions
            /\ objects[id].state = "in_zone" => objects'[id] = objects[id]
       /\ \A z \in ZoneIds :
            /\ zone_count'[z] >= zone_count[z]
            /\ zone_count'[z] # zone_count[z] =>
                  /\ zone_count'[z] = zone_count[z] + 1
                  /\ \E id \in DOMAIN objects :
                        /\ objects[id].state = "held"
                        /\ objects'[id].state = "in_zone"
                        /\ objects'[id].position = ZoneCenter(z)]_vars

\* an object is InZone, its zone counts it, and a return_to_source has just
\* been refused while no object is Held
C32_Witness ==
    /\ pc = "ready" /\ result.kind = "return_to_source" /\ ~result.success
    /\ \E id \in DOMAIN objects, z \in ZoneIds :
          /\ objects[id].state = "in_zone"
          /\ objects[id].position = ZoneCenter(z)
          /\ zone_count[z] >= 1
    /\ \A id \in DOMAIN objects : objects[id].state # "held"

\* the eight counters of a collector
Counters ==
    {"successful_picks", "failed_picks", "successful_places", "failed_places",
     "collisions", "missed_picks", "correct_placements", "incorrect_placements"}

\* the collector holds nothing of the current cycle
Cleared(m) ==
    /\ \A c \in Counters : m[c] = 0
    /\ m.start_time = None
    /\ m.end_time = None
    /\ m.operation_history = <<>>

\* C33: a reset() sets every counter to 0, clears the start and end times and
\* the operation history, and leaves the saved reports, their order and the
\* latest report as they were.
C33_ResetKeepsSavedReports ==
    [][MetricsReset =>
          /\ Cleared(metrics')
          /\ get_history(metrics') = get_history(metrics)
          /\ get_latest_report(metrics') = get_latest_report(metrics)]_vars

\* C33 witness: a cleared collector that still holds two different saved
\* reports, the latest one counting a recorded operation; only a reset() after
\* the recording and the saving leads here.
C33_Witness ==
    /\ Cleared(metrics)
    /\ Len(metrics.metrics_history) = 2
    /\ metrics.metrics_history[1] # metrics.metrics_history[2]
    /\ get_latest_report(metrics).failed_operations > 0
    /\ get_latest_report(metrics).collisions > 0

\* C34: whenever no call is running, the arm is Idle or Holding.
C34_IdleOrHoldingBetweenOperations ==
    pc = "ready" => arm.state \in {"idle", "holding"}

\* C34 witness: a pick_object that went through Moving and Picking, used up
\* its retries and returned with the arm Idle.
C34_Witness ==
    /\ pc = "ready"
    /\ result.kind = "pick"
    /\ result.error = "max_retries_exceeded"
    /\ result.retry_count > 1
    /\ arm.state = "idle"

\* C35: whenever no call is running, the arm is Holding exactly when its
\* held-object reference is set.
C35_HoldingIffHeldObject ==
    pc = "ready" => (arm.state = "holding" <=> arm.held_object # None)

\* the objects of the registry in state InZone
InZoneObjects == {id \in DOMAIN objects : objects[id].state = "in_zone"}

\* the sum of current_count over the zones of a set
RECURSIVE TotalCount(_)
TotalCount(zids) ==
    IF zids = {} THEN 0
    ELSE LET zid == CHOOSE z \in zids : TRUE
         IN  zone_count[zid] + TotalCount(zids \ {zid})

\* C36: in every state the counts of the zones add up to the number of
\* objects in state InZone, so that no failed place attempt leaves a count
\* without an InZone object.
C36_ZoneCountsMatchInZoneObjects ==
    TotalCount(ZoneIds) = Cardinality(InZoneObjects)

\* C36 witness: a place_object that returned a failure while a zone holds an
\* object.
C36_Witness ==
    /\ pc = "ready"
    /\ result.kind = "place"
    /\ ~result.success
    /\ InZoneObjects # {}
    /\ TotalCount(ZoneIds) > 0

\* C37: a move_to fails with Collision whenever an object that is neither
\* Held nor ignored lies within 0.5, on both axes, of the arm's position or
\* of the target, wherever the other objects are.
C37_MoveToFailsWhenEndpointObstructed ==
    [][(/\ MoveToRan
        /\ \/ ObstructedAt(arm.position, route'.ignore)
           \/ ObstructedAt(route'.target, route'.ignore)) =>
          /\ MoveToFailed
          /\ route'.waypoints = <<>>
          /\ arm'.position = arm.position
          /\ pc' = "ready" => result'.error = "collision"]_vars

\* C37 witness: a move_to that failed from a position with no object within
\* the buffer, towards a target 0.5 away on both axes from an object that is
\* neither Held nor ignored.
C37_Witness ==
    /\ pc = "ready"
    /\ result.kind = "move"
    /\ ~result.success
    /\ route.target = <<550, 550>>
    /\ ObstructedAt(route.target, route.ignore)
    /\ ~ObstructedAt(arm.position, route.ignore)
    /\ \A id \in DOMAIN objects : objects[id].position # route.target

\* the zone's centre lies inside the zone's bounds
CenterInside(zid) == Contains(Zone(zid).bounds, ZoneCenter(zid))

\* the step returns from a pick_object, or from a place_object into a zone
\* whose centre lies inside its bounds
ReturnsFromPickOrInsidePlace ==
    /\ pc # "ready"
    /\ pc' = "ready"
    /\ \/ call.op = "pick"
       \/ call.op = "place" /\ CenterInside(call.zone)

\* the movements the returning call has attempted, the one of this step
\* included
MovementsUntilReturn == call.moves + (IF pc \in {"pick_move", "place_move"} THEN 1 ELSE 0)

\* C38: a pick_object, and a place_object into a zone whose centre lies
\* inside its bounds, returns Collision only with retry_count 0: the movement
\* of a later attempt never collides.
C38_CollisionOnlyOnFirstAttempt ==
    [][(ReturnsFromPickOrInsidePlace /\ result'.error = "collision") =>
          /\ result'.retry_count = 0
          /\ MovementsUntilReturn = 1]_vars

\* C38 witness: a pick_object that returned Collision with retry_count 0 on
\* its first movement, the object still in the source.
C38_Witness ==
    /\ pc = "ready"
    /\ result.kind = "pick"
    /\ result.error = "collision"
    /\ result.retry_count = 0
    /\ result.object_id \in DOMAIN objects
    /\ objects[result.object_id].state = "in_source"
    /\ route.ignore = result.object_id

\* C39: after any sequence of record_pick, record_place, record_collision and
\* record_operation calls the correct and the incorrect placements add up to
\* the successful places and the missed picks do not exceed the failed picks;
\* a record_collision adds one to the collisions counter and one record to
\* the operation history and changes nothing else, so that the
\* failed_operations calculate_metrics reports, failed_picks + failed_places,
\* do not count it.
C39_CountersConsistent ==
    /\ [](/\ metrics.correct_placements + metrics.incorrect_placements
                = metrics.successful_places
          /\ metrics.missed_picks <= metrics.failed_picks
          /\ calculate_metrics(metrics, 0, TRUE).failed_operations
                = metrics.failed_picks + metrics.failed_places)
    /\ [][RecordCollision =>
             /\ metrics'.collisions = metrics.collisions + 1
             /\ Len(metrics'.operation_history) = Len(metrics.operation_history) + 1
             /\ \A f \in DOMAIN metrics \ {"collisions", "operation_history"} :
                   metrics'[f] = metrics[f]
             /\ calculate_metrics(metrics', 0, TRUE).failed_operations
                   = calculate_metrics(metrics, 0, TRUE).failed_operations]_vars

\* C39 witness: a collector that recorded a collision and a placement, with a
\* collision counted and no failed operation.
C39_Witness ==
    /\ Len(metrics.operation_history) = 2
    /\ metrics.operation_history[1].error = "collision"
    /\ metrics.operation_history[1].operation_type = "pick"
    /\ ~metrics.operation_history[1].success
    /\ metrics.collisions = 1
    /\ metrics.successful_places = 1
    /\ metrics.correct_placements = 1
    /\ calculate_metrics(metrics, 0, TRUE).failed_operations = 0

\* start and end share x or share y
AxisAligned(start, end) == start[1] = end[1] \/ start[2] = end[2]

\* C40: when the direct path of an axis-aligned segment collides, no
\* single-waypoint candidate has both sub-segments clear, and a route the
\* planner returns for it has exactly two waypoints.
C40_AxisAlignedNeedsTwoWaypoints ==
    [][(/\ MoveToRan
        /\ AxisAligned(arm.position, route'.target)
        /\ PlannerSearched(arm.position, route'.target, route'.ignore)) =>
          /\ ~SomeSingleClear(arm.position, route'.target, route'.ignore)
          /\ MoveToFailed \/ Len(route'.waypoints) = 2]_vars

\* C40 witness: a move_to along a horizontal segment that arrived over two
\* waypoints; the two have the same y, off the target's, which the fractions
\* 0.3 and 0.7 give only when start and end share y.
C40_Witness ==
    /\ pc = "ready"
    /\ result.kind = "move"
    /\ result.success
    /\ Len(route.waypoints) = 2
    /\ route.waypoints[1][2] = route.waypoints[2][2]
    /\ route.waypoints[1][2] # route.target[2]
    /\ route.waypoints[1][1] # route.waypoints[2][1]
    /\ arm.position = route.target

====
